---- MODULE Spec2Model ----
(***************************************************************************)
(* Verification model of the Rain-In-Halloween landing page variants.      *)
(*                                                                         *)
(* The page is a set of independent components; each one is modelled as    *)
(* its own state machine over its own variables, with its own             *)
(* specification (SpecRain, SpecLut, SpecCoaster, SpecMotion,              *)
(* SpecAutoLoad, SpecPanel, SpecLights).  A specification leaves the       *)
(* variables of the other components unchanged.                            *)
(*                                                                         *)
(* Numbers: JavaScript numbers are modelled as exact fixed-point integers  *)
(* (the unit is given with each component); single-precision rounding of   *)
(* values stored in Float32Array buffers is not modelled.                  *)
(***************************************************************************)
EXTENDS Integers, Sequences, FiniteSets, TLC

VARIABLES
  \* ---- Rain (src/unnamed/part_000:671-775)
  rainProps,    \* the props of the current render
  rainP,        \* state.p : particle positions  <<x, y, z>>
  rainV,        \* state.v : particle velocities <<vx, vy, vz>>
  rainArr,      \* the "position" buffer: <<hx, hy, hz, tx, ty, tz>> per particle
  rainGeo,      \* geoRef.current is set (the <bufferGeometry> is mounted)
  rainAttr,     \* the mounted geometry carries the "position" attribute
  rainInteg,    \* history: y of each particle right after the integration of the last frame
  rainFramed,   \* history: a frame has updated the particles since state was (re)built
  \* ---- Arc-length table and coaster car (src/unnamed/part_000:213-356)
  lut,          \* the table of the mounted curve: [n, s, L], u[i] = i / n
  lutD,         \* the last argument uFromS was called with
  lutOut,       \* what that call computed: [x, lo, hi, num, den]
  coProps,      \* the props of CoasterSpriteCar
  coSlope,      \* tangent.y of the curve on each segment of the table
  sRef,         \* arc-length position of the car
  vRef,         \* speed of the car
  coEffect,     \* the initialisation effect has run for the current props
  coFramed,     \* history: a frame ran its sub-steps since the effect ran
  \* ---- MotionDetector (src/unnamed/part_000:991-1175) and App.motionValue
  mdMounted,    \* the component is mounted (its listeners are registered)
  startedRef,   \* startedRef.current
  waitingGesture, \* waitingGesture.current
  startPc,      \* where start() is: idle, load1..load3, gum, play, warm0, warm1
  poseRef,      \* poseRef.current: null, open, closed
  videoRef,     \* videoRef.current is the <video> element (null after unmount)
  srcLive,      \* v.srcObject holds a stream whose track is live
  leakedLive,   \* a stream no longer referenced by v.srcObject has a live track
  loopPc,       \* where loop() is: none, raf (a frame is requested), send (awaiting pose.send)
  now,          \* performance.now(), in ticks of 1000/30 ms
  st,           \* prevLmRef.current: [y, t, out, last, g]
  motionValue,  \* App's motionValue state
  mdOutcome,    \* history: how the last finished start() ended: none, failed, succeeded
  mdSeen,       \* history: facts about the run so far (a set of tags)
  \* ---- App settings (src/unnamed/part_000:1343-1593, App - ghostRunning.jsx:2012-2138)
  sky, env, coaster, rain, imgRing,   \* the five settings objects: key -> value
  imgItems,     \* per-image [size, y]
  autoRotate,   \* App's autoRotate state
  loadPc,       \* the settings read in flight: fetch, text, or idle
  pickDoc,      \* the content of the file onPickFile is reading
  panelKey, uiKey,  \* the remount keys of the panels and of Leva
  fileValue,    \* the file input holds a chosen file (e.target.value is not '')
  savedDoc,     \* the content of the last file written by saveToTxt
  loadOutcome,  \* history: the first thing that went wrong in the last settings read, or what was read
  saveHist,     \* history: the settings when savedDoc was written, and what happened since
  \* ---- lobby variant, lights settings (src/src/App.jsx:474-524)
  lobbyEnv,     \* App's env state: key -> value
  lightsPc,     \* the lights-settings.txt request: fetch, text, or done
  cancelled,    \* the effect's cancelled flag (set by the unmount cleanup)
  lightsRead,   \* history: how the request settled, what its body was, and whether mounted
  \* ---- lightning (src/unnamed/part_000:494-668, App - ghostRunning.jsx:955-1140)
  ltProps,      \* the props of <LightningClassic /> or <Lightning />
  ltState,      \* state.current: [active, t, dur, cooldown, strikeSeed]
  ltStrikes,    \* history: how many strikes were built
  ltPasses,     \* history: the point list before and after each pass of the last strike
  mainGeo,      \* the points build() handed to mainGeo
  mainGeoB,     \* the same in a second run of the program
  branchGeo,    \* the points handed to b1Geo and b2Geo
  ltReversed,   \* history: main.reverse() ran in the last build
  thickOpacity, \* thickMat.opacity, in 1/1000
  \* ---- score and music (src/unnamed/part_000:1330-1339, 1401-1407, 1473-1498, 1595-1637)
  scoreRef,     \* scoreRef.current, in 1/10000
  score,        \* App's score state (the displayed score)
  gameActive,   \* App's gameActive state
  appMv,        \* App's motionValue state
  tkActive,     \* the gameActive prop ScoreTicker was last rendered with
  tkMv,         \* the motionValue prop ScoreTicker was last rendered with
  audioPlaying, \* the audio element is playing
  frozen,       \* history: 'ended' was handled and no 'play' since
  gLast,        \* history: the last handler that ran, and the dtRaw of a frame
  gFrames,      \* history: how many frames added to the score
  effMv,        \* the motionValue of the last commit of App (the effect's dependency)
  mvSinceRef,   \* mvSinceRef.current
  audioStartedRef, \* audioStartedRef.current
  audioMuted,   \* a.muted
  audioVolume,  \* a.volume, in percent
  gNow,         \* performance.now(), in ticks of 50 ms
  holdFrom,     \* history: the time of the first of the latest effect runs above START_MV, or 0
  gStarts,      \* history: how often startMusicAndRotate took effect
  \* ---- onResults on a stream of results (src/unnamed/part_000:1061-1110)
  rsNow,        \* performance.now(), in ticks of 1000/30 ms
  rsSt,         \* prevLmRef.current
  rsCall,       \* history: the last result, when it came, the state it met, and what onChange got
  \* ---- motion to rain (src/unnamed/part_000:1664-1690)
  rdMv,         \* App's motionValue state
  dynamicRain,  \* [opacity, count]: dynamicRainOpacity and dynamicRainCount of the last render
  \* ---- mountains and bats (src/unnamed/part_000:136-172, 1645-1649, 1871-1875)
  scRendered,   \* Mountains and BatsJumpHtml are mounted
  ringsRef,     \* Mountains' ringsRef.current: the radii of the rings (empty before the mount)
  batsRadius,   \* the radius prop of BatsJumpHtml
  \* ---- loadPose (src/unnamed/part_000:1005-1059)
  lpPc,         \* where loadPose() is: [i, at], the index in BASES and the await
  windowPose,   \* what window.Pose holds
  lpTags,       \* the bases whose <script> the current call appended
  lpLog,        \* history: the attempts of the current call
  lastErr,      \* loadPose's lastErr
  lpOut,        \* history: what the call returned or threw
  lpCalls       \* history: how often loadPose was called

rainVars == <<rainProps, rainP, rainV, rainArr, rainGeo, rainAttr, rainInteg, rainFramed>>

lutVars == <<lut, lutD, lutOut>>
coVars == <<coProps, coSlope, sRef, vRef, coEffect, coFramed>>

mdVars == <<mdMounted, startedRef, waitingGesture, startPc, poseRef, videoRef,
           srcLive, leakedLive, loopPc, now, st, motionValue, mdOutcome, mdSeen>>

settingVars == <<sky, env, coaster, rain, imgRing, imgItems, autoRotate>>

fileVars == <<loadPc, pickDoc, panelKey, uiKey, fileValue, savedDoc, loadOutcome, saveHist>>

lightsVars == <<lobbyEnv, lightsPc, cancelled, lightsRead>>

ltVars == <<ltProps, ltState, ltStrikes, ltPasses, mainGeo, mainGeoB,
           branchGeo, ltReversed, thickOpacity>>

scoreVars == <<scoreRef, score, gameActive, appMv, tkActive, tkMv,
              audioPlaying, frozen, gLast, gFrames>>

musicVars == <<effMv, mvSinceRef, audioStartedRef, audioMuted, audioVolume,
              gNow, holdFrom, gStarts>>

\* the components added after the first seven
rsVars == <<rsNow, rsSt, rsCall>>

rainMapVars == <<rdMv, dynamicRain>>
sceneVars == <<scRendered, ringsRef, batsRadius>>
lpVars == <<lpPc, windowPose, lpTags, lpLog, lastErr, lpOut, lpCalls>>

laterVars ==
  <<ltVars, scoreVars, musicVars, rsVars, rainMapVars, sceneVars, lpVars>>

vars == <<rainVars, lutVars, coVars, mdVars, settingVars, fileVars, lightsVars,
         laterVars>>

baseVars == <<rainVars, lutVars, coVars, mdVars, settingVars, fileVars, lightsVars>>
notLightningVars ==
  <<baseVars, scoreVars, musicVars, rsVars, rainMapVars, sceneVars, lpVars>>
notResultsVars ==
  <<baseVars, ltVars, scoreVars, musicVars, rainMapVars, sceneVars, lpVars>>
notRainMapVars ==
  <<baseVars, ltVars, scoreVars, musicVars, rsVars, sceneVars, lpVars>>
notLoadPoseVars ==
  <<baseVars, ltVars, scoreVars, musicVars, rsVars, rainMapVars, sceneVars>>
notSceneVars ==
  <<rainVars, lutVars, coVars, mdVars, lightsVars, ltVars, scoreVars,
    musicVars, rsVars, rainMapVars, lpVars>>

\* the score and the music handlers also write autoRotate
notGameVars == <<rainVars, lutVars, coVars, mdVars, sky, env, coaster, rain,
                imgRing, imgItems, fileVars, lightsVars, ltVars, rsVars,
                rainMapVars, sceneVars, lpVars>>
notScoreVars == <<notGameVars, musicVars>>

notRainVars == <<lutVars, coVars, mdVars, settingVars, fileVars, lightsVars, laterVars>>
notLutVars == <<rainVars, coVars, mdVars, settingVars, fileVars, lightsVars, laterVars>>
notCoasterVars == <<rainVars, mdVars, settingVars, fileVars, lightsVars, laterVars>>
notMotionVars == <<rainVars, lutVars, coVars, settingVars, fileVars, lightsVars, laterVars>>
notSettingsVars == <<rainVars, lutVars, coVars, mdVars, lightsVars, laterVars>>
notLightsVars == <<rainVars, lutVars, coVars, mdVars, settingVars, fileVars, laterVars>>

(***************************************************************************)
(* Small helpers.                                                          *)
(***************************************************************************)
Min(a, b) == IF a <= b THEN a ELSE b
Max(a, b) == IF a >= b THEN a ELSE b
Abs(a) == IF a < 0 THEN -a ELSE a

\* floor of the square root of n >= 0
ISqrt(n) == CHOOSE r \in 0..n : r * r <= n /\ (r + 1) * (r + 1) > n

(***************************************************************************)
(* RAIN.  Units: time in ticks of 0.01 s, velocities in world units per    *)
(* second, positions in 1/100 world unit, so that p += v * dt is exact.    *)
(***************************************************************************)
RainCount == 1          \* particles (the count prop)
RainDtClamp == 5        \* Math.min(dtRaw, 0.05)

\* Values Math.random() is sampled at, in percent of [0, 1).
RandPct == {0, 99}
\* Frame deltas handed to useFrame, in ticks.
RainDtRaw == {0, 5, 9}

RainIdx == 1..RainCount

\* Props of a render: the settings may change enabled, yBase (groundY),
\* areaHeight and speed.
RainPropSet ==
  [ enabled : BOOLEAN, areaRadius : {60}, areaHeight : {0, 70}, groundY : {-160},
    speed : {10}, length : {120}, windX : {0}, windZ : {0} ]

\* rndInDisc: a point of the disc of radius areaRadius.
RainDisc(areaRadius) == { <<0, 0>>, <<areaRadius \div 2, 0>> }

\* speed * (lo + Math.random() * span), lo and span in percent
RainScaled(speed, lo, span, r) == (speed * (lo + (r * span) \div 100)) \div 100

\* One freshly drawn particle of the state memo.
RainFreshP(props) ==
  { <<d[1], props.groundY + (r * props.areaHeight) \div 100, d[2]>> :
      d \in RainDisc(props.areaRadius), r \in RandPct }
RainFreshV(props) ==
  { << RainScaled(props.windX, 60, 80, r1),
       -RainScaled(props.speed, 70, 60, r2),
       RainScaled(props.windZ, 60, 80, r1) >> : r1 \in RandPct, r2 \in RandPct }

\* The deps of the state memo.
RainDeps(props) ==
  <<props.areaRadius, props.areaHeight, props.groundY, props.speed, props.windX, props.windZ>>

RainZeroArr == [i \in RainIdx |-> <<0, 0, 0, 0, 0, 0>>]

\* Math.hypot(vx, vy, vz), and the tail offset v * (length / mag)
RainMag(v) == ISqrt(v[1] * v[1] + v[2] * v[2] + v[3] * v[3])
RainTail(h, v, length) ==
  LET mag == RainMag(v)
  IN  IF mag = 0 THEN h
      ELSE << h[1] - (v[1] * length) \div mag,
              h[2] - (v[2] * length) \div mag,
              h[3] - (v[3] * length) \div mag >>

\* The integration of one particle over dt.
RainIntegrate(p, v, dt) == << p[1] + v[1] * dt, p[2] + v[2] * dt, p[3] + v[3] * dt >>

\* mutant: the reset puts the particle back at the ground instead of the top
RainResetPoint_AtGround(props, d) == << d[1], props.groundY, d[2] >>

\* The point a particle that fell below the ground is put back at.
RainResetPoint(props, d) == << d[1], props.groundY + props.areaHeight, d[2] >>

\* Whether the integrated particle is reset.
RainBelow(q, props) == q[2] < props.groundY

\* The mount of the component (first render and its effects).
RainInit ==
  /\ rainProps \in { pr \in RainPropSet : pr.enabled /\ pr.speed > 0 }
  /\ rainP \in [RainIdx -> RainFreshP(rainProps)]
  /\ rainV \in [RainIdx -> RainFreshV(rainProps)]
  /\ rainArr = RainZeroArr
  /\ rainGeo = TRUE
  /\ rainAttr = TRUE
  /\ rainInteg = [i \in RainIdx |-> rainP[i][2]]
  /\ rainFramed = FALSE

\* A fixed mounted state, for the specifications of the other components.
RainIdle ==
  /\ rainProps = [ enabled |-> TRUE, areaRadius |-> 60, areaHeight |-> 70, groundY |-> -160,
                   speed |-> 10, length |-> 120, windX |-> 0, windZ |-> 0 ]
  /\ rainP = [i \in RainIdx |-> <<0, -160, 0>>]
  /\ rainV = [i \in RainIdx |-> <<0, -7, 0>>]
  /\ rainArr = RainZeroArr
  /\ rainGeo = TRUE
  /\ rainAttr = TRUE
  /\ rainInteg = [i \in RainIdx |-> -160]
  /\ rainFramed = FALSE

\* A re-render with new props: the state memo is rebuilt when one of its deps
\* changed; the geometry is mounted only while enabled, and the effect that
\* attaches the "position" attribute depends on [positions] only.
RainRender ==
  \E props \in RainPropSet :
    /\ props # rainProps
    /\ rainProps' = props
    /\ IF RainDeps(props) # RainDeps(rainProps)
       THEN /\ rainP' \in [RainIdx -> RainFreshP(props)]
            /\ rainV' \in [RainIdx -> RainFreshV(props)]
            /\ rainInteg' = [i \in RainIdx |-> rainP'[i][2]]
            /\ rainFramed' = FALSE
       ELSE UNCHANGED <<rainP, rainV, rainInteg, rainFramed>>
    /\ rainGeo' = props.enabled
    /\ rainAttr' = (props.enabled /\ rainProps.enabled /\ rainAttr)
    /\ UNCHANGED rainArr
    /\ UNCHANGED notRainVars

\* useFrame: one frame of the particle update.
RainFrame ==
  \E dtRaw \in RainDtRaw :
    /\ rainProps.enabled /\ rainGeo
    /\ rainAttr            \* posAttr.array throws when the attribute is missing
    /\ LET dt == Min(dtRaw, RainDtClamp)
           q == [i \in RainIdx |-> RainIntegrate(rainP[i], rainV[i], dt)]
       IN  /\ \E d \in [RainIdx -> RainDisc(rainProps.areaRadius)] :
                rainP' = [i \in RainIdx |->
                            IF RainBelow(q[i], rainProps)
                            THEN RainResetPoint(rainProps, d[i]) ELSE q[i]]
           /\ rainArr' = [i \in RainIdx |->
                            rainP'[i] \o RainTail(rainP'[i], rainV[i], rainProps.length)]
           /\ rainInteg' = [i \in RainIdx |-> q[i][2]]
    /\ rainFramed' = TRUE
    /\ UNCHANGED <<rainProps, rainV, rainGeo, rainAttr>>
    /\ UNCHANGED notRainVars

(***************************************************************************)
(* ARC-LENGTH TABLE.  A curve is given by the distances between its         *)
(* consecutive sample points; u[i] = i / n, so a value of u is kept as the  *)
(* exact fraction num / den.                                                *)
(***************************************************************************)
LutSamples == 3         \* samples (n): the table has n + 1 entries
LutMaxSeg == 2          \* longest distance between two consecutive samples
LutMaxWrap == 2         \* arguments of uFromS range over -LutMaxWrap*L .. LutMaxWrap*L

RECURSIVE LutAcc(_, _)
\* acc after sample i: the sum of the first i distances
LutAcc(seg, i) == IF i = 0 THEN 0 ELSE LutAcc(seg, i - 1) + seg[i]

\* buildArcLengthLUT(curve, samples)
buildArcLengthLUT(seg, samples) ==
  [ n |-> samples,
    s |-> [i \in 0..samples |-> LutAcc(seg, i)],
    L |-> LutAcc(seg, samples) ]

\* The curves the table is built from: those of positive length.
LutCurves ==
  { seg \in [1..LutSamples -> 0..LutMaxSeg] : LutAcc(seg, LutSamples) > 0 }

\* JavaScript's a % b for b > 0: the result has the sign of a.
JsRem(a, b) == IF a >= 0 THEN a % b ELSE -((-a) % b)

\* let x = sVal % L; if (x < 0) x += L
LutReduce(sVal, L) ==
  LET x == JsRem(sVal, L)
  IN  IF x < 0 THEN x + L ELSE x

\* mutant: the comparison of the binary search made strict
LutGoesRight_Strict(s, mid, x) == s[mid] < x

\* if (s[mid] <= x) lo = mid; else hi = mid
LutGoesRight(s, mid, x) == s[mid] <= x

RECURSIVE LutSearch(_, _, _, _)
\* while (lo + 1 < hi) { mid = (lo + hi) >> 1; ... }
LutSearch(s, x, lo, hi) ==
  IF lo + 1 < hi
  THEN LET mid == (lo + hi) \div 2
       IN  IF LutGoesRight(s, mid, x) THEN LutSearch(s, x, mid, hi)
           ELSE LutSearch(s, x, lo, mid)
  ELSE <<lo, hi>>

\* uFromS(lut, sVal), with what it computes on the way:
\* t = (x - s[lo]) / ((s[hi] - s[lo]) || 1); lerp(u[lo], u[hi], t) = (1 - t) u[lo] + t u[hi]
uFromS(l, sVal) ==
  LET x  == LutReduce(sVal, l.L)
      b  == LutSearch(l.s, x, 0, l.n)
      lo == b[1]
      hi == b[2]
      td == IF l.s[hi] - l.s[lo] = 0 THEN 1 ELSE l.s[hi] - l.s[lo]
      tn == x - l.s[lo]
  IN  [ x |-> x, lo |-> lo, hi |-> hi,
        num |-> (td - tn) * lo + tn * hi, den |-> td * l.n ]

LutInit ==
  /\ \E seg \in LutCurves : lut = buildArcLengthLUT(seg, LutSamples)
  /\ lutD = 0
  /\ lutOut = uFromS(lut, 0)

LutIdle ==
  /\ lut = buildArcLengthLUT([i \in 1..LutSamples |-> 1], LutSamples)
  /\ lutD = 0
  /\ lutOut = uFromS(lut, 0)

\* The curve changes (useMemo rebuilds the table).
LutBuild ==
  /\ \E seg \in LutCurves : lut' = buildArcLengthLUT(seg, LutSamples)
  /\ lut' # lut
  /\ lutD' = 0
  /\ lutOut' = uFromS(lut', 0)
  /\ UNCHANGED notLutVars

\* A call of uFromS on the mounted table.
LutQuery ==
  /\ \E d \in (-(LutMaxWrap * lut.L))..(LutMaxWrap * lut.L) :
       /\ lutD' = d
       /\ lutOut' = uFromS(lut, d)
  /\ UNCHANGED lut
  /\ UNCHANGED notLutVars

NextLut == LutBuild \/ LutQuery

(***************************************************************************)
(* COASTER CAR.  Units: time in ticks of 1/240 s (maxStep = 1/120 s is two  *)
(* ticks), s in the units of the table, v in table units per tick, g in     *)
(* table units per tick^2, drag in percent per tick.                        *)
(***************************************************************************)
CoasterMaxStep == 2     \* const maxStep = 1 / 120
CoasterDtClamp == 12    \* Math.min(dtRaw, 0.05)

\* Frame deltas handed to useFrame, in ticks.
CoasterDtRaw == {0, 1, 3, 12, 20}

\* The props of one car: car i of `cars` (startU = i / Math.max(1, cars)).
CoasterPropSet ==
  [ g : {1}, drag : {50}, uSpeed : {6, 20000}, minV : {0, 1}, maxV : {1, 4},
    i : {0, 1}, cars : {2}, speedScale : {1, 2} ]

\* The slope profiles of the curve: tangent.y on segment k of the table.
CoasterSlopes ==
  { [k \in 0..(LutSamples - 1) |-> c] : c \in {-1, 0, 1} }
    \cup { [k \in 0..(LutSamples - 1) |-> IF k % 2 = 0 THEN 1 ELSE -1] }

\* The curves a coaster is mounted on: even, long, and with coinciding samples.
CoasterCurves ==
  { [j \in 1..LutSamples |-> 1], [j \in 1..LutSamples |-> 2],
    [j \in 1..LutSamples |-> IF j % 2 = 1 THEN 2 ELSE 0] }

\* mutant: a clamp that forgets the lower bound
clamp_NoLower(x, lo, hi) == Min(hi, x)

\* THREE.MathUtils.clamp(value, min, max) = Math.max(min, Math.min(max, value))
clamp(x, lo, hi) == Max(lo, Min(hi, x))

\* curve.getTangentAt(u0).normalize().y for u0 = num / den
CoasterTangentY(slope, l, s) ==
  LET r == uFromS(l, s)
      k == (r.num * l.n) \div r.den
  IN  slope[IF k >= l.n THEN l.n - 1 ELSE k]

\* a = -g * t0.y - drag * v
CoasterAccel(props, ty, v) == -(props.g * ty) - (props.drag * v) \div 100

\* s = (s + v * step) % lut.L
CoasterAdvance(s, v, step, L) == JsRem(s + v * step, L)

RECURSIVE CoasterSteps(_, _, _, _, _, _)
\* while (remaining > 0) { ... }: the pair <<v, s>> it ends with
CoasterSteps(props, slope, l, remaining, v, s) ==
  IF remaining > 0
  THEN LET step == Min(remaining, CoasterMaxStep)
           ty   == CoasterTangentY(slope, l, s)
           a    == CoasterAccel(props, ty, v)
           v2   == clamp(v + a * step, props.minV, props.maxV)
           s2   == CoasterAdvance(s, v2, step, l.L)
       IN  CoasterSteps(props, slope, l, remaining - step, v2, s2)
  ELSE <<v, s>>

\* The mount: useRef(0) for both cells, the effect has not run yet.
CoasterInit ==
  /\ coProps \in { pr \in CoasterPropSet : pr.minV <= pr.maxV }
  /\ coSlope \in CoasterSlopes
  /\ sRef = 0
  /\ vRef = 0
  /\ coEffect = FALSE
  /\ coFramed = FALSE

CoasterIdle ==
  /\ coProps = [ g |-> 1, drag |-> 50, uSpeed |-> 6, minV |-> 1, maxV |-> 4,
                 i |-> 0, cars |-> 2, speedScale |-> 1 ]
  /\ coSlope = [k \in 0..(LutSamples - 1) |-> 0]
  /\ sRef = 0
  /\ vRef = 0
  /\ coEffect = FALSE
  /\ coFramed = FALSE

\* The initialisation effect: sRef = (startU % 1) * L, vRef = clamp(uSpeed * L, minV, maxV)
CoasterEffect ==
  /\ ~coEffect
  /\ sRef' = ((coProps.i % Max(1, coProps.cars)) * lut.L) \div Max(1, coProps.cars)
  /\ vRef' = clamp((coProps.uSpeed * lut.L) \div 100, coProps.minV, coProps.maxV)
  /\ coEffect' = TRUE
  /\ coFramed' = FALSE
  /\ UNCHANGED <<coProps, coSlope, lutVars>>
  /\ UNCHANGED notCoasterVars

\* A re-render with other props or another curve: the effect is due again.
CoasterRender ==
  /\ coEffect
  /\ \/ /\ \E pr \in CoasterPropSet :
             /\ pr.minV <= pr.maxV
             /\ pr.speedScale = coProps.speedScale /\ pr.cars = coProps.cars
             /\ pr # coProps
             /\ coProps' = pr
        /\ UNCHANGED <<lutVars, coSlope>>
     \/ /\ \E seg \in CoasterCurves : lut' = buildArcLengthLUT(seg, LutSamples)
        /\ lut' # lut
        /\ lutD' = 0
        /\ lutOut' = uFromS(lut', 0)
        /\ coSlope' \in CoasterSlopes
        /\ UNCHANGED coProps
  /\ coEffect' = FALSE
  /\ UNCHANGED <<sRef, vRef, coFramed>>
  /\ UNCHANGED notCoasterVars

\* useFrame: the sub-stepped integration of one frame.
CoasterFrame ==
  \E dtRaw \in CoasterDtRaw :
    LET remaining == Min(dtRaw, CoasterDtClamp) * coProps.speedScale
        r == CoasterSteps(coProps, coSlope, lut, remaining, vRef, sRef)
    IN  /\ vRef' = r[1]
        /\ sRef' = r[2]
        /\ lutD' = r[2]
        /\ lutOut' = uFromS(lut, r[2])
        /\ coFramed' = (coFramed \/ (coEffect /\ remaining > 0))
        /\ UNCHANGED <<lut, coProps, coSlope, coEffect>>
        /\ UNCHANGED notCoasterVars

NextCoaster == CoasterEffect \/ CoasterRender \/ CoasterFrame

(***************************************************************************)
(* MOTION DETECTOR (secure context).  Units: time in ticks of 1000/30 ms,   *)
(* so MIN_GAP_MS = 1000/15 is two ticks; landmark y in 1/10000 of the       *)
(* image height; the motion signal in 1/10000.                              *)
(***************************************************************************)
MaxNow == 5             \* the clock stops advancing here

MIN_GAP == 2            \* const MIN_GAP_MS = 1000/15
DEAD == 15              \* const DEAD = 0.0015
IDLE_LIFT == 20         \* lift < 0.002
VIS_MIN == 50           \* takeAvg(ids, vis = 0.5), in percent
TICKS_PER_SEC == 30     \* (now - st.t) / 1000, for ticks of 1000/30 ms

Null == -1              \* null / undefined of a numeric cell

HIPS == {23, 24}
SHOULDERS == {11, 12}

\* A landmark list with both hips at hipY (visibility hipVis) and both
\* shoulders at shY (visibility shVis).
Landmarks(hipVis, hipY, shVis, shY) ==
  [i \in HIPS \cup SHOULDERS |->
     IF i \in HIPS THEN [visibility |-> hipVis, y |-> hipY]
     ELSE [visibility |-> shVis, y |-> shY]]

NoLandmarks == [i \in HIPS \cup SHOULDERS |-> [visibility |-> Null, y |-> Null]]

\* What pose.send may hand to onResults: res.poseLandmarks missing, or a list.
PoseResults ==
  { [has |-> FALSE, lm |-> NoLandmarks],
    [has |-> TRUE, lm |-> Landmarks(90, 5000, 90, 3000)],
    [has |-> TRUE, lm |-> Landmarks(90, 4990, 90, 2990)],
    [has |-> TRUE, lm |-> Landmarks(30, 5000, 90, 3000)],
    [has |-> TRUE, lm |-> Landmarks(30, 5000, 30, 3000)] }

RECURSIVE SumY(_, _)
SumY(lm, ids) ==
  IF ids = {} THEN 0
  ELSE LET i == CHOOSE j \in ids : TRUE IN lm[i].y + SumY(lm, ids \ {i})

\* takeAvg(ids, 0.5): the mean y of the landmarks of ids that are visible, or null
takeAvg(lm, ids) ==
  LET pts == { i \in ids : lm[i].visibility >= VIS_MIN }
  IN  IF pts = {} THEN Null ELSE SumY(lm, pts) \div Cardinality(pts)

\* shoulders first, hips as a fallback
TorsoY_ShouldersFirst(lm) ==
  IF takeAvg(lm, SHOULDERS) # Null THEN takeAvg(lm, SHOULDERS)
  ELSE takeAvg(lm, HIPS)

\* hips first, shoulders as a fallback
TorsoY(lm) ==
  IF takeAvg(lm, HIPS) # Null THEN takeAvg(lm, HIPS) ELSE takeAvg(lm, SHOULDERS)

\* prevLmRef.current when onResults first runs: { y: null, t: 0, out: 0, last: 0 }
FreshSt == [y |-> Null, t |-> 0, out |-> 0, last |-> 0, g |-> Null]

\* The motion value of a result with torso height y, for the state s at time n.
MotionOut(s, y, n) ==
  LET ticks == n - s.t
      vy    == IF ticks * 1000 < TICKS_PER_SEC
               THEN (s.y - y) * 1000
               ELSE ((s.y - y) * TICKS_PER_SEC) \div ticks
      speed == Max(0, Abs(vy) - DEAD)
      g0    == IF s.g = Null THEN y ELSE s.g
      g1    == (g0 * 985 + Max(y, g0) * 15) \div 1000
      lift  == Max(0, g1 - y)
      raw   == speed * 1100 + lift * 550
      out   == (7 * raw + 3 * s.out) \div 10
  IN  [ g |-> g1, out |-> IF speed <= 0 /\ lift < IDLE_LIFT THEN 0 ELSE out ]

\* onResults(res) at time n: the new state, and the value handed to onChange
\* (called = FALSE when the throttle returned before any call).
onResults(s, res, n) ==
  IF n - s.last < MIN_GAP THEN [st |-> s, called |-> FALSE, val |-> 0]
  ELSE IF ~res.has
  THEN [st |-> [s EXCEPT !.last = n, !.out = 0], called |-> TRUE, val |-> 0]
  ELSE IF TorsoY(res.lm) = Null
  THEN [st |-> [s EXCEPT !.last = n, !.out = 0], called |-> TRUE, val |-> 0]
  ELSE IF s.y = Null
  THEN [st |-> [s EXCEPT !.last = n, !.y = TorsoY(res.lm), !.t = n, !.out = 0],
        called |-> TRUE, val |-> 0]
  ELSE LET m == MotionOut(s, TorsoY(res.lm), n)
       IN  [st |-> [s EXCEPT !.last = n, !.y = TorsoY(res.lm), !.t = n,
                             !.g = m.g, !.out = m.out],
            called |-> TRUE, val |-> m.out]

\* What a settled pose.send did: it rejected ("throw"), or resolved after
\* handing a result to onResults ("result"); on a pose that was closed it may
\* also resolve without a result ("quiet").
SendOutcomes ==
  LET none == CHOOSE r \in PoseResults : ~r.has
  IN  {[kind |-> "throw", res |-> none]}
        \cup {[kind |-> "result", res |-> r] : r \in PoseResults}
        \cup (IF poseRef = "closed" THEN {[kind |-> "quiet", res |-> none]} ELSE {})

\* History tags of a step taken after the unmount cleanup: a send was issued,
\* a send settled, an animation frame was requested.
AfterUnmount(tags) == IF mdMounted THEN {} ELSE tags

\* A settled send: a result goes through onResults, which may call onChange
\* (App's setMotionValue; a state update of an unmounted tree does nothing).
Deliver(o, tags) ==
  LET r == IF o.kind = "result" THEN onResults(st, o.res, now)
           ELSE [st |-> st, called |-> FALSE, val |-> 0]
  IN  /\ st' = r.st
      /\ motionValue' = IF r.called /\ mdMounted THEN r.val ELSE motionValue
      /\ mdSeen' = mdSeen \cup tags
                     \cup (IF r.called THEN {"onChange"} ELSE {})
                     \cup (IF r.called /\ r.val # 0 THEN {"nonzero"} ELSE {})

\* The mount effect in a secure context: start() runs to its first await.
MotionInit ==
  /\ mdMounted = TRUE
  /\ startedRef = TRUE
  /\ waitingGesture = FALSE
  /\ startPc = "load1"
  /\ poseRef = "null"
  /\ videoRef = TRUE
  /\ srcLive = FALSE
  /\ leakedLive = FALSE
  /\ loopPc = "none"
  /\ now = 0
  /\ st = FreshSt
  /\ motionValue = 0
  /\ mdOutcome = "none"
  /\ mdSeen = {}

MotionIdle == MotionInit

\* performance.now() advances.
MdTick ==
  /\ now < MaxNow
  /\ now' = now + 1
  /\ UNCHANGED <<mdMounted, startedRef, waitingGesture, startPc, poseRef, videoRef,
                 srcLive, leakedLive, loopPc, st, motionValue, mdOutcome, mdSeen>>
  /\ UNCHANGED notMotionVars

\* mutant: the catch of start() leaves startedRef set
StartCatch_KeepsStarted ==
  /\ waitingGesture' = TRUE
  /\ startedRef' = startedRef
  /\ startPc' = "idle"
  /\ mdOutcome' = "failed"

\* catch (e) { waitingGesture.current = true; startedRef.current = false }
StartCatch ==
  /\ waitingGesture' = TRUE
  /\ startedRef' = FALSE
  /\ startPc' = "idle"
  /\ mdOutcome' = "failed"

\* start(): if (startedRef.current) return; startedRef.current = true; await loadPose()
StartCall ==
  IF startedRef
  THEN UNCHANGED <<startedRef, startPc>>
  ELSE startedRef' = TRUE /\ startPc' = "load1"

\* const retry = () => { if (waitingGesture.current) start() }
RetryGuard == waitingGesture

\* A pointerdown or keydown while the listeners are registered.
MdGesture ==
  /\ mdMounted
  /\ IF RetryGuard THEN StartCall ELSE UNCHANGED <<startedRef, startPc>>
  /\ UNCHANGED <<mdMounted, waitingGesture, poseRef, videoRef, srcLive, leakedLive,
                 loopPc, now, st, motionValue, mdOutcome, mdSeen>>
  /\ UNCHANGED notMotionVars

\* mutant: start() goes on to the warm-up without asking for the camera
StartAfterLoad_NoCamera == "play"

\* The await of start() that follows loadPose(): getUserMedia
StartAfterLoad == "gum"

BaseOf(pc) == IF pc = "load1" THEN 1 ELSE IF pc = "load2" THEN 2 ELSE 3

\* loadPose(): loadPoseFrom(base) settles for the base it is at.  A success
\* returns the pose; then start() reads videoRef.current and asks for the camera.
MdLoadPoseFrom ==
  /\ startPc \in {"load1", "load2", "load3"}
  /\ \E ok \in BOOLEAN :
       IF ok
       THEN /\ poseRef' = "open"
            /\ IF videoRef
               THEN /\ startPc' = StartAfterLoad
                    /\ UNCHANGED <<waitingGesture, startedRef, mdOutcome>>
               ELSE StartCatch             \* v.playsInline = true on null throws
       ELSE /\ UNCHANGED poseRef
            /\ IF BaseOf(startPc) < 3
               THEN /\ startPc' = (IF startPc = "load1" THEN "load2" ELSE "load3")
                    /\ UNCHANGED <<waitingGesture, startedRef, mdOutcome>>
               ELSE StartCatch
  /\ UNCHANGED <<mdMounted, videoRef, srcLive, leakedLive, loopPc, now, st, motionValue, mdSeen>>
  /\ UNCHANGED notMotionVars

\* getUserMedia settles: the stream becomes v.srcObject, or the rejection is caught.
MdGetUserMedia ==
  /\ startPc = "gum"
  /\ \E ok \in BOOLEAN :
       IF ok
       THEN /\ srcLive' = TRUE
            /\ leakedLive' = (leakedLive \/ srcLive)
            /\ startPc' = "play"
            /\ mdSeen' = mdSeen \cup {"camera"}
            /\ UNCHANGED <<waitingGesture, startedRef, mdOutcome>>
       ELSE /\ StartCatch
            /\ UNCHANGED <<srcLive, leakedLive, mdSeen>>
  /\ UNCHANGED <<mdMounted, poseRef, videoRef, loopPc, now, st, motionValue>>
  /\ UNCHANGED notMotionVars

\* The end of start(): rafRef.current = requestAnimationFrame(loop)
StartFinish ==
  /\ startPc' = "idle"
  /\ loopPc' = "raf"
  /\ mdOutcome' = "succeeded"
  /\ UNCHANGED <<waitingGesture, startedRef>>

\* for (i < 2) if (poseRef.current && v.readyState >= 2) await poseRef.current.send(..):
\* from iteration i, either a send is awaited or the remaining iterations are skipped.
StartWarmFrom(i) ==
  \E ready \in [i..1 -> BOOLEAN] :
    IF \E j \in i..1 : ready[j]
    THEN /\ startPc' = (IF (CHOOSE j \in i..1 : ready[j] /\ \A k \in i..(j - 1) : ~ready[k]) = 0
                        THEN "warm0" ELSE "warm1")
         /\ UNCHANGED <<loopPc, mdOutcome, waitingGesture, startedRef>>
    ELSE StartFinish

\* await v.play().catch(() => {}) settles; the warm-up begins.
MdPlaySettled ==
  /\ startPc = "play"
  /\ StartWarmFrom(0)
  /\ mdSeen' = mdSeen \cup AfterUnmount(IF startPc' = "idle" THEN {"raf"} ELSE {"send"})
  /\ UNCHANGED <<mdMounted, poseRef, videoRef, srcLive, leakedLive, now, st, motionValue>>
  /\ UNCHANGED notMotionVars

\* A warm-up send settles: a rejection is caught by start(), anything else
\* goes on with the warm-up.
MdWarmSettled ==
  /\ startPc \in {"warm0", "warm1"}
  /\ \E o \in SendOutcomes :
       /\ IF o.kind = "throw"
          THEN StartCatch /\ UNCHANGED loopPc
          ELSE IF startPc = "warm0" THEN StartWarmFrom(1) ELSE StartFinish
       /\ Deliver(o, AfterUnmount(IF o.kind = "throw" THEN {}
                                  ELSE IF startPc' = "idle" THEN {"raf"} ELSE {"send"}))
  /\ UNCHANGED <<mdMounted, poseRef, videoRef, srcLive, leakedLive, now>>
  /\ UNCHANGED notMotionVars

\* mutant: loop() without the try/catch around send: a rejection ends the loop
LoopAfterThrow_Stops == loopPc' = "none"

\* try { await poseRef.current.send(..) } catch {} ; rafRef.current = requestAnimationFrame(loop)
LoopAfterThrow == loopPc' = "raf"

\* The requested animation frame fires: loop() runs to its await, or to its end.
MdLoopFrame ==
  /\ loopPc = "raf"
  /\ \E ready \in BOOLEAN :
       IF poseRef # "null" /\ videoRef /\ ready
       THEN /\ loopPc' = "send"
            /\ mdSeen' = mdSeen \cup AfterUnmount({"send"})
       ELSE /\ loopPc' = "raf"
            /\ mdSeen' = mdSeen \cup AfterUnmount({"raf"})
  /\ UNCHANGED <<mdMounted, startedRef, waitingGesture, startPc, poseRef, videoRef,
                 srcLive, leakedLive, now, st, motionValue, mdOutcome>>
  /\ UNCHANGED notMotionVars

\* The send of loop() settles and the next frame is requested.
MdLoopSettled ==
  /\ loopPc = "send"
  /\ \E o \in SendOutcomes :
       /\ IF o.kind = "throw" THEN LoopAfterThrow ELSE loopPc' = "raf"
       /\ Deliver(o, (IF o.kind = "throw" THEN {"loopThrew"} ELSE {})
                       \cup AfterUnmount(IF loopPc' = "raf" THEN {"raf"} ELSE {}))
  /\ UNCHANGED <<mdMounted, startedRef, waitingGesture, startPc, poseRef, videoRef,
                 srcLive, leakedLive, now, mdOutcome>>
  /\ UNCHANGED notMotionVars

\* The unmount: React detaches the ref, then the cleanup of the effect runs.
\* Whether the cleanup still sees the element in videoRef.current depends on
\* the order in which the renderer does the two, so both are allowed.
MdUnmount ==
  /\ mdMounted
  /\ mdMounted' = FALSE
  /\ videoRef' = FALSE
  /\ loopPc' = (IF loopPc = "raf" THEN "none" ELSE loopPc)      \* cancelAnimationFrame
  /\ poseRef' = (IF poseRef = "null" THEN "null" ELSE "closed") \* poseRef.current?.close()
  /\ \E seesVideo \in BOOLEAN : srcLive' = (IF seesVideo THEN FALSE ELSE srcLive)
  /\ UNCHANGED <<startedRef, waitingGesture, startPc, leakedLive, now, st,
                 motionValue, mdOutcome, mdSeen>>
  /\ UNCHANGED notMotionVars

NextMotion ==
  \/ MdTick \/ MdGesture \/ MdLoadPoseFrom \/ MdGetUserMedia \/ MdPlaySettled
  \/ MdWarmSettled \/ MdLoopFrame \/ MdLoopSettled \/ MdUnmount

(***************************************************************************)
(* APP SETTINGS.  A JavaScript value is a record [t, n, s, a]: its type, its *)
(* number in 1/1000 (for a boolean 1 or 0), its string, and for an array the *)
(* numbers of its elements.  An object is a function from its own keys to    *)
(* values; a nested object is only known to be one (t = "obj").  A JSON text *)
(* is modelled by its syntax tree (a "document").                            *)
(***************************************************************************)
PortraitCount == 2      \* how many entries of portraitList are modelled
MaxPanelKey == 2        \* no file is picked once panelKey has reached this

Num(x) == [t |-> "num", n |-> x, s |-> "", a |-> <<>>]
Str(x) == [t |-> "str", n |-> 0, s |-> x, a |-> <<>>]
Bool(b) == [t |-> "bool", n |-> IF b THEN 1 ELSE 0, s |-> "", a |-> <<>>]
Arr(xs) == [t |-> "arr", n |-> 0, s |-> "", a |-> xs]
JsNull == [t |-> "null", n |-> 0, s |-> "", a |-> <<>>]
Undefined == [t |-> "undef", n |-> 0, s |-> "", a |-> <<>>]
NaN == [t |-> "nan", n |-> 0, s |-> "", a |-> <<>>]
JsObject == [t |-> "obj", n |-> 0, s |-> "", a |-> <<>>]

defaultSky ==
  "top" :> Str("#6c4ab6") @@ "mid" :> Str("#7b57c4") @@ "bottom" :> Str("#a07be6")
    @@ "exponent" :> Num(1250)

defaultEnv ==
  "nearColor" :> Str("#110a1e") @@ "farColor" :> Str("#1d1230") @@ "ringCount" :> Num(3000)
    @@ "hillsPerRing" :> Num(28000) @@ "baseRadius" :> Num(40000)
    @@ "ringSpacing" :> Num(14000) @@ "yBase" :> Num(-1600) @@ "fogDensity" :> Num(10)

defaultCoaster ==
  "show" :> Bool(TRUE) @@ "radius" :> Num(22000) @@ "turns" :> Num(1000)
    @@ "ampY" :> Num(2200) @@ "ampR" :> Num(1200) @@ "freqY" :> Num(3000)
    @@ "freqR" :> Num(2000) @@ "railGap" :> Num(700) @@ "tubeRadius" :> Num(50)
    @@ "railColor" :> Str("#e6d2a3") @@ "carSize" :> Arr(<<900, 900>>)
    @@ "carSpeed" :> Num(60) @@ "cars" :> Num(1000) @@ "yOffset" :> Num(1000)
    @@ "useTrackNormal" :> Bool(FALSE) @@ "speedScale" :> Num(1000)

defaultRain ==
  "enabled" :> Bool(TRUE) @@ "count" :> Num(1500000) @@ "areaRadius" :> Num(60000)
    @@ "areaHeight" :> Num(40000) @@ "speed" :> Num(26000) @@ "length" :> Num(1200)
    @@ "windX" :> Num(1800) @@ "windZ" :> Num(-600) @@ "opacity" :> Num(750)
    @@ "color" :> Str("#a9c8ff")

defaultImgRing ==
  "enabled" :> Bool(TRUE) @@ "radius" :> Num(20000) @@ "y" :> Num(1200)
    @@ "size" :> Num(2200) @@ "mode" :> Str("sprite") @@ "opacity" :> Num(1000)

\* the first entries of portraitList: [size, y]
portraitList ==
  << [size |-> Num(36000), y |-> Num(18000)],
     [size |-> Num(20000), y |-> Num(8000)],
     [size |-> Num(16000), y |-> Num(8000)] >>

portraitImages == 1..PortraitCount

\* useState(() => portraitList.map(p => ({ size: p.size, y: p.y })))
defaultImgItems == [i \in portraitImages |-> portraitList[i]]

SectionNames == {"sky", "env", "coaster", "rain", "imgRing"}

\* ---- JSON documents
\* kind: invalid (JSON.parse throws), null, scalar (a number, string, boolean
\* or array at the top), object.  sec: the sections present, each with its
\* truthiness and its own enumerable properties (what a spread copies).
\* items: imgItems (absent, falsy, array, other) and the [size, y] read from
\* each element.  orbit: absent, falsy or truthy, and its autoRotate.
NoSections == [x \in {} |-> [truthy |-> FALSE, own |-> [k \in {} |-> Undefined]]]
NoItems == [k |-> "absent", items |-> <<>>]
NoOrbit == [k |-> "absent", autoRotate |-> Undefined]

DocOf(kind, sec, items, orbit) ==
  [kind |-> kind, sec |-> sec, items |-> items, orbit |-> orbit]

InvalidDoc == DocOf("invalid", NoSections, NoItems, NoOrbit)
NullDoc == DocOf("null", NoSections, NoItems, NoOrbit)
ScalarDoc == DocOf("scalar", NoSections, NoItems, NoOrbit)
NoFile == DocOf("none", NoSections, NoItems, NoOrbit)

\* JSON.stringify of one value: NaN becomes null; undefined has no JSON form
\* (a key holding it is left out, an array element becomes null).
JsonValue(v) == IF v.t = "nan" THEN JsNull ELSE v

JsonObject(o) == [k \in {j \in DOMAIN o : o[j].t # "undef"} |-> JsonValue(o[k])]

JsonItem(v) == IF v.t = "undef" THEN Undefined ELSE JsonValue(v)

\* the property of an array element as a reader finds it: a key that was
\* left out reads as undefined
JsonItems(items) ==
  [i \in DOMAIN items |-> [size |-> JsonItem(items[i].size), y |-> JsonItem(items[i].y)]]

\* { ...s, ...parsed.x }
Spread(s, own) ==
  [k \in DOMAIN s \cup DOMAIN own |-> IF k \in DOMAIN own THEN own[k] ELSE s[k]]

\* a ?? b
Coalesce(a, b) == IF a.t \in {"null", "undef"} THEN b ELSE a

\* parsed.x && ... ? merged : current
MergeSection(doc, name, s) ==
  IF name \in DOMAIN doc.sec /\ doc.sec[name].truthy
  THEN Spread(s, doc.sec[name].own)
  ELSE s

\* parsed.imgItems[i]?.size, parsed.imgItems[i]?.y
ItemAt(items, i) ==
  IF i \in DOMAIN items THEN items[i] ELSE [size |-> Undefined, y |-> Undefined]

MergeItems(doc, cur) ==
  IF doc.items.k = "array"
  THEN [i \in portraitImages |->
          [size |-> Coalesce(ItemAt(doc.items.items, i).size, defaultImgRing["size"]),
           y    |-> Coalesce(ItemAt(doc.items.items, i).y, defaultImgRing["y"])]]
  ELSE cur

MergeOrbit(doc, cur) ==
  IF doc.orbit.k = "truthy" /\ doc.orbit.autoRotate.t = "bool"
  THEN doc.orbit.autoRotate.n = 1
  ELSE cur

\* The setters that follow JSON.parse in the auto-load effect and in
\* onPickFile; for a null document parsed.sky throws before any of them.
ApplyParsed(doc) ==
  /\ sky' = MergeSection(doc, "sky", sky)
  /\ env' = MergeSection(doc, "env", env)
  /\ coaster' = MergeSection(doc, "coaster", coaster)
  /\ rain' = MergeSection(doc, "rain", rain)
  /\ imgRing' = MergeSection(doc, "imgRing", imgRing)
  /\ imgItems' = MergeItems(doc, imgItems)
  /\ autoRotate' = MergeOrbit(doc, autoRotate)

\* JSON.parse(text) and the property reads after it throw
ParseThrows(doc) == doc.kind \in {"invalid", "null"}

\* ---- what a settings file may hold
\* For each section, the value a file gives it when the section is present.
FileSection ==
  [sky     |-> [truthy |-> TRUE, own |-> ("top" :> Str("#000000"))],
   env     |-> [truthy |-> TRUE, own |-> ("yBase" :> Num(-2000) @@ "glow" :> Num(1000))],
   coaster |-> [truthy |-> TRUE, own |-> ("carSize" :> Arr(<<1200>>) @@ "cars" :> JsNull)],
   rain    |-> [truthy |-> TRUE, own |-> ("count" :> Num(200000))],
   imgRing |-> [truthy |-> TRUE, own |-> ("radius" :> Num(30000))]]

\* "sky": 0 (falsy) and "sky": "ab" (a string spreads its characters)
OddSections ==
  { ("sky" :> [truthy |-> FALSE, own |-> [k \in {} |-> Undefined]]),
    ("sky" :> [truthy |-> TRUE, own |-> ("0" :> Str("a") @@ "1" :> Str("b"))]) }

FileSections ==
  { [x \in d |-> FileSection[x]] : d \in SUBSET SectionNames } \cup OddSections

FileItems ==
  { NoItems,
    [k |-> "other", items |-> <<>>],
    [k |-> "array", items |-> <<>>],
    [k |-> "array", items |-> << [size |-> Num(5000), y |-> Undefined],
                                 [size |-> JsNull, y |-> Str("high")] >>] }

FileOrbits ==
  { NoOrbit,
    [k |-> "falsy", autoRotate |-> Undefined],
    [k |-> "truthy", autoRotate |-> Bool(FALSE)],
    [k |-> "truthy", autoRotate |-> Str("yes")] }

SettingsDocs ==
  { DocOf("object", s, i, o) : s \in FileSections, i \in FileItems, o \in FileOrbits }
    \cup {InvalidDoc, NullDoc, ScalarDoc}

NoSave == [snap |-> <<>>, picked |-> FALSE, clean |-> FALSE, edited |-> FALSE]

\* The settings as App's useState calls leave them (part_000).
SettingsDefault ==
  /\ sky = defaultSky
  /\ env = defaultEnv
  /\ coaster = defaultCoaster
  /\ rain = defaultRain
  /\ imgRing = defaultImgRing
  /\ imgItems = defaultImgItems
  /\ autoRotate = TRUE

FilesIdle ==
  /\ pickDoc = NoFile
  /\ panelKey = 0
  /\ uiKey = 0
  /\ fileValue = FALSE
  /\ savedDoc = NoFile
  /\ saveHist = NoSave

\* part_000 after the first render: the auto-load effect awaits fetch().
AutoLoadInit ==
  /\ SettingsDefault
  /\ FilesIdle
  /\ loadPc = "fetch"
  /\ loadOutcome = "pending"

\* the settings read is over (used where another component is under study)
SettingsIdle ==
  /\ SettingsDefault
  /\ FilesIdle
  /\ loadPc = "idle"
  /\ loadOutcome = "notOk"

\* mutant: a response that is not ok is read like any other
FetchNotOk_ReadsOn == "text"

\* if (!res.ok) { console.warn(..); return }
FetchNotOk == "idle"

\* fetch(url) settles: it rejects (catch), or resolves with res.ok false
\* (return) or true (await res.text()).
AutoLoadFetchSettled ==
  /\ loadPc = "fetch"
  /\ \E r \in {"rejected", "notOk", "ok"} :
       /\ loadPc' = (IF r = "ok" THEN "text" ELSE IF r = "notOk" THEN FetchNotOk ELSE "idle")
       /\ loadOutcome' = (IF r = "ok" THEN loadOutcome ELSE r)
  /\ UNCHANGED <<settingVars, pickDoc, panelKey, uiKey, fileValue, savedDoc, saveHist>>
  /\ UNCHANGED notSettingsVars

\* res.text() settles: it rejects, or the body is parsed and merged.
AutoLoadTextSettled ==
  /\ loadPc = "text"
  /\ loadPc' = "idle"
  /\ \/ /\ loadOutcome' = (IF loadOutcome = "pending" THEN "textRejected" ELSE loadOutcome)
        /\ UNCHANGED settingVars
     \/ \E doc \in SettingsDocs :
          /\ loadOutcome' = (IF loadOutcome = "pending" THEN doc.kind ELSE loadOutcome)
          /\ IF ParseThrows(doc) THEN UNCHANGED settingVars ELSE ApplyParsed(doc)
  /\ UNCHANGED <<pickDoc, panelKey, uiKey, fileValue, savedDoc, saveHist>>
  /\ UNCHANGED notSettingsVars

NextAutoLoad == AutoLoadFetchSettled \/ AutoLoadTextSettled

(***************************************************************************)
(* SETTINGS PANELS, SAVE AND LOAD (App - ghostRunning.jsx, the last App).    *)
(***************************************************************************)
\* defaultImgRing of this variant differs from part_000 in its radius
panelImgRing == [defaultImgRing EXCEPT !["radius"] = Num(12000)]

PanelDefault ==
  [sky |-> defaultSky, env |-> defaultEnv, coaster |-> defaultCoaster,
   rain |-> defaultRain, imgRing |-> panelImgRing]

\* Controls whose onChange is v => setX(s => ({ ...s, key: v })): two of each
\* panel (every other control of the panels but the three below has this form)
PanelKeys ==
  [sky     |-> {"top", "exponent"},
   env     |-> {"ringCount", "yBase"},
   coaster |-> {"show", "cars"},
   rain    |-> {"enabled", "color"},
   imgRing |-> {"size", "mode"}]

\* The values a control hands to onChange: the one it starts with and, for
\* some controls, another one of its range.
PanelValues(sec, key) ==
  {PanelDefault[sec][key]}
    \cup (IF sec = "sky" /\ key = "top" THEN {Str("#101010")} ELSE {})

RainCountInputs == {1500400}            \* the drops slider
CarSizeInputs == {1200}                 \* the carWidth and carHeight sliders

\* Math.round of a number in 1/1000
MathRound(x) == ((x + 500) \div 1000) * 1000

\* s.carSize?.[i] ?? 0.9
CarSizeAt(s, i) ==
  IF "carSize" \in DOMAIN s /\ s["carSize"].t = "arr" /\ i <= Len(s["carSize"].a)
  THEN s["carSize"].a[i]
  ELSE 900

\* the current value of the settings, as one tuple
Settings == <<sky, env, coaster, rain, imgRing, imgItems, autoRotate>>

\* The five settings objects of a settings tuple, as the sections of a file.
JsonSections(s) ==
  [x \in SectionNames |->
     [truthy |-> TRUE,
      own |-> JsonObject(CASE x = "sky" -> s[1] [] x = "env" -> s[2]
                           [] x = "coaster" -> s[3] [] x = "rain" -> s[4]
                           [] OTHER -> s[5])]]

\* mutant: a file that leaves out orbit
JsonStringify_NoOrbit(s) ==
  DocOf("object", JsonSections(s), [k |-> "array", items |-> JsonItems(s[6])], NoOrbit)

\* JSON.stringify({ sky, env, coaster, rain, imgRing, imgItems, orbit: { autoRotate } })
JsonStringify(s) ==
  DocOf("object", JsonSections(s), [k |-> "array", items |-> JsonItems(s[6])],
        [k |-> "truthy", autoRotate |-> JsonValue(Bool(s[7]))])

\* files a user may pick besides the one saved last
ForeignDocs ==
  { InvalidDoc, NullDoc, ScalarDoc,
    DocOf("object", ("sky" :> [truthy |-> TRUE, own |-> ("glow" :> Num(1000))]),
          [k |-> "array", items |-> << [size |-> Num(5000), y |-> Undefined] >>],
          [k |-> "truthy", autoRotate |-> Str("yes")]) }

\* the last App of App - ghostRunning.jsx after its first render
PanelInit ==
  /\ sky = defaultSky
  /\ env = defaultEnv
  /\ coaster = defaultCoaster
  /\ rain = defaultRain
  /\ imgRing = panelImgRing
  /\ imgItems = defaultImgItems
  /\ autoRotate = TRUE
  /\ FilesIdle
  /\ loadPc = "idle"
  /\ loadOutcome = "pending"

Edited == [saveHist EXCEPT !.edited = TRUE]

\* A control of one of the five panels calls its onChange.
PanelEdit ==
  /\ \E sec \in SectionNames :
       \E key \in PanelKeys[sec] :
         \E v \in PanelValues(sec, key) :
           /\ sky' = (IF sec = "sky" THEN Spread(sky, key :> v) ELSE sky)
           /\ env' = (IF sec = "env" THEN Spread(env, key :> v) ELSE env)
           /\ coaster' = (IF sec = "coaster" THEN Spread(coaster, key :> v) ELSE coaster)
           /\ rain' = (IF sec = "rain" THEN Spread(rain, key :> v) ELSE rain)
           /\ imgRing' = (IF sec = "imgRing" THEN Spread(imgRing, key :> v) ELSE imgRing)
  /\ saveHist' = Edited
  /\ UNCHANGED <<imgItems, autoRotate>>
  /\ UNCHANGED <<loadPc, pickDoc, panelKey, uiKey, fileValue, savedDoc, loadOutcome>>
  /\ UNCHANGED notSettingsVars

\* The drops slider: v => setRain(s => ({ ...s, count: Math.round(v) }))
PanelEditCount ==
  /\ \E v \in RainCountInputs : rain' = Spread(rain, "count" :> Num(MathRound(v)))
  /\ saveHist' = Edited
  /\ UNCHANGED <<sky, env, coaster, imgRing, imgItems, autoRotate>>
  /\ UNCHANGED <<loadPc, pickDoc, panelKey, uiKey, fileValue, savedDoc, loadOutcome>>
  /\ UNCHANGED notSettingsVars

\* carWidth: carSize: [v, s.carSize?.[1] ?? 0.9]; carHeight: [s.carSize?.[0] ?? 0.9, v]
PanelEditCarSize ==
  /\ \E v \in CarSizeInputs :
       \E width \in BOOLEAN :
         coaster' = Spread(coaster, "carSize" :>
                       (IF width THEN Arr(<<v, CarSizeAt(coaster, 2)>>)
                        ELSE Arr(<<CarSizeAt(coaster, 1), v>>)))
  /\ saveHist' = Edited
  /\ UNCHANGED <<sky, env, rain, imgRing, imgItems, autoRotate>>
  /\ UNCHANGED <<loadPc, pickDoc, panelKey, uiKey, fileValue, savedDoc, loadOutcome>>
  /\ UNCHANGED notSettingsVars

\* the autoRotate checkbox of the Sky panel: v => setAutoRotate(v)
PanelEditAutoRotate ==
  /\ \E v \in BOOLEAN : autoRotate' = v
  /\ saveHist' = Edited
  /\ UNCHANGED <<sky, env, coaster, rain, imgRing, imgItems>>
  /\ UNCHANGED <<loadPc, pickDoc, panelKey, uiKey, fileValue, savedDoc, loadOutcome>>
  /\ UNCHANGED notSettingsVars

\* The Save button.
saveToTxt ==
  /\ savedDoc' = JsonStringify(Settings)
  /\ saveHist' = [snap |-> Settings, picked |-> FALSE, clean |-> TRUE, edited |-> FALSE]
  /\ UNCHANGED settingVars
  /\ UNCHANGED <<loadPc, pickDoc, panelKey, uiKey, fileValue, loadOutcome>>
  /\ UNCHANGED notSettingsVars

\* The user chooses a file in the file input: onPickFile runs to await file.text().
PickFile ==
  /\ loadPc = "idle"
  /\ panelKey < MaxPanelKey
  /\ \E doc \in ForeignDocs \cup (IF savedDoc = NoFile THEN {} ELSE {savedDoc}) :
       /\ pickDoc' = doc
       /\ saveHist' = [saveHist EXCEPT !.picked = (doc = savedDoc)]
  /\ loadPc' = "text"
  /\ fileValue' = TRUE
  /\ loadOutcome' = "pending"
  /\ UNCHANGED settingVars
  /\ UNCHANGED <<panelKey, uiKey, savedDoc>>
  /\ UNCHANGED notSettingsVars

\* file.text() settles: rejected or unparsable -> alert; else the merges and
\* the two key increments; finally e.target.value = ''.
onPickFile ==
  /\ loadPc = "text"
  /\ loadPc' = "idle"
  /\ pickDoc' = NoFile
  /\ fileValue' = FALSE
  /\ \/ /\ loadOutcome' = "textRejected"
        /\ UNCHANGED <<settingVars, panelKey, uiKey, saveHist>>
     \/ /\ loadOutcome' = pickDoc.kind
        /\ IF ParseThrows(pickDoc)
           THEN UNCHANGED <<settingVars, panelKey, uiKey, saveHist>>
           ELSE /\ ApplyParsed(pickDoc)
                /\ panelKey' = panelKey + 1
                /\ uiKey' = uiKey + 1
                /\ saveHist' = [saveHist EXCEPT !.clean = @ /\ saveHist.picked]
  /\ UNCHANGED savedDoc
  /\ UNCHANGED notSettingsVars

NextPanel ==
  \/ PanelEdit \/ PanelEditCount \/ PanelEditCarSize \/ PanelEditAutoRotate
  \/ saveToTxt \/ PickFile \/ onPickFile

(***************************************************************************)
(* LOBBY VARIANT: LIGHTS SETTINGS (src/src/App.jsx, the first App).          *)
(* Numbers of this component are in 1/10000.                                 *)
(***************************************************************************)
MaxLightKeys == 2       \* a lights file gives at most this many keys

\* const defaults = useMemo(() => ({ ... }), [])
defaults ==
  "skyTop" :> Str("#87CEE8") @@ "skyTopAlpha" :> Num(10000)
    @@ "skyBottom" :> Str("#FFFFFF") @@ "skyBottomAlpha" :> Num(10000)
    @@ "groundColor" :> Str("#FFF8DC") @@ "groundAlpha" :> Num(10000)
    @@ "sunColor" :> Str("#FFD580") @@ "fogType" :> Str("linear")
    @@ "fogNear" :> Num(10000) @@ "fogFar" :> Num(40000000) @@ "fogDensity" :> Num(25)
    @@ "gradientExponent" :> Num(9000) @@ "envPreset" :> Str("lobby")
    @@ "envIntensity" :> Num(8000) @@ "ambientColor" :> Str("#FFF6DA")
    @@ "ambientIntensity" :> Num(2500) @@ "hemiEnabled" :> Bool(TRUE)
    @@ "hemiIntensity" :> Num(6000) @@ "dirEnabled" :> Bool(TRUE)
    @@ "dirIntensity" :> Num(13000) @@ "sunAzimuth" :> Num(450000)
    @@ "sunElevation" :> Num(550000) @@ "rimEnabled" :> Bool(FALSE)
    @@ "rimColor" :> Str("#ffffff") @@ "rimIntensity" :> Num(0)
    @@ "rimAzimuth" :> Num(2200000) @@ "rimElevation" :> Num(250000)

ALLOWED_PRESETS ==
  {"apartment", "city", "dawn", "forest", "lobby", "night", "park", "studio", "sunset",
   "warehouse"}

BOOL_KEYS == {"hemiEnabled", "dirEnabled", "rimEnabled"}

NUMBER_KEYS ==
  {"dirIntensity", "gradientExponent", "fogNear", "fogFar", "fogDensity", "envIntensity",
   "ambientIntensity", "hemiIntensity", "sunAzimuth", "sunElevation", "rimIntensity",
   "rimAzimuth", "rimElevation"}

\* /_Alpha$/.test(k), for the keys of defaults: none of them ends in "_Alpha"
\* (skyTopAlpha, skyBottomAlpha and groundAlpha have no underscore)
EndsInUnderscoreAlpha(k) == k \in {}

\* Number(string), for the strings a lights file of the model holds
NumberOfString(x) ==
  CASE x = "" -> Num(0)
    [] x = "12" -> Num(120000)
    [] OTHER -> NaN

\* Number(v)
ToNumber(v) ==
  CASE v.t = "num" -> v
    [] v.t = "nan" -> NaN
    [] v.t = "bool" -> Num(v.n * 10000)
    [] v.t = "null" -> Num(0)
    [] v.t = "str" -> NumberOfString(v.s)
    [] v.t = "arr" -> (IF Len(v.a) = 0 THEN Num(0)
                       ELSE IF Len(v.a) = 1 THEN Num(v.a[1]) ELSE NaN)
    [] OTHER -> NaN

\* !!v
Truthy(v) ==
  CASE v.t = "num" -> v.n # 0
    [] v.t = "bool" -> v.n = 1
    [] v.t = "str" -> v.s # ""
    [] v.t \in {"null", "undef", "nan"} -> FALSE
    [] OTHER -> TRUE

\* clamp01(x)
clamp01(v) ==
  LET x == ToNumber(v)
  IN  IF x.t = "nan" THEN Num(10000) ELSE Num(Min(10000, Max(0, x.n)))

\* ALLOWED_PRESETS.includes(String(v)); only a string can spell a preset
\* among the values a lights file of the model holds
IsAllowedPreset(v) == v.t = "str" /\ v.s \in ALLOWED_PRESETS

\* one turn of the for loop of validateEnv: the value safe[k] gets from v
ValidatedKey(k, v, fallback) ==
  IF EndsInUnderscoreAlpha(k) THEN clamp01(v)
  ELSE IF k \in BOOL_KEYS THEN Bool(Truthy(v))
  ELSE IF k \in NUMBER_KEYS THEN ToNumber(v)
  ELSE IF k = "fogType" /\ v \in {Str("linear"), Str("exp2")} THEN v
  ELSE IF k = "envPreset" THEN (IF IsAllowedPreset(v) THEN v ELSE fallback["envPreset"])
  ELSE IF v.t = "str" THEN v
  ELSE fallback[k]

\* A lights document: kind invalid, null, scalar, array or object, and for an
\* object its own keys.
LightsDoc(kind, own) == [kind |-> kind, own |-> own]

NoKeys == [k \in {} |-> Undefined]

validateEnv(obj, fallback) ==
  IF obj.kind # "object" /\ obj.kind # "array" THEN fallback
  ELSE [k \in DOMAIN fallback |->
          IF k \in DOMAIN obj.own THEN ValidatedKey(k, obj.own[k], fallback)
          ELSE fallback[k]]

LightsFileKeys ==
  {"skyTopAlpha", "hemiEnabled", "fogNear", "fogType", "envPreset", "skyTop", "extra"}

LightsFileValues ==
  {Num(5000), Num(0), Str("city"), Str("exp2"), Str("12"), Bool(FALSE), JsNull, Arr(<<>>),
   JsObject}

LightsDocs ==
  { LightsDoc("object", own) :
      own \in UNION { [d -> LightsFileValues] :
                        d \in {x \in SUBSET LightsFileKeys : Cardinality(x) <= MaxLightKeys} } }
    \cup { LightsDoc(k, NoKeys) : k \in {"invalid", "null", "scalar", "array"} }

\* mutant: the validated settings are stored as they are
LockPreset_Skip(e) == e

\* { ...validated, envPreset: 'lobby' }
LockPreset(e) == [e EXCEPT !["envPreset"] = Str("lobby")]

NotRead == [how |-> "pending", doc |-> LightsDoc("invalid", NoKeys), mounted |-> TRUE]

\* the first App of App.jsx after its first render: the effect awaits fetch()
LightsInit ==
  /\ lobbyEnv = defaults
  /\ lightsPc = "fetch"
  /\ cancelled = FALSE
  /\ lightsRead = NotRead

\* the request has settled (used where another component is under study)
LightsIdle ==
  /\ lobbyEnv = defaults
  /\ lightsPc = "done"
  /\ cancelled = FALSE
  /\ lightsRead = [how |-> "rejected", doc |-> LightsDoc("invalid", NoKeys), mounted |-> TRUE]

\* setEnv(e): the state of a component that is unmounted is not updated
SetLobbyEnv(e) == lobbyEnv' = (IF cancelled THEN lobbyEnv ELSE e)

\* fetch() settles: a rejection goes to .catch(() => setEnv({ ...defaults }))
LightsFetchSettled ==
  /\ lightsPc = "fetch"
  /\ \E ok \in BOOLEAN :
       IF ok
       THEN /\ lightsPc' = "text"
            /\ UNCHANGED <<lobbyEnv, lightsRead>>
       ELSE /\ lightsPc' = "done"
            /\ SetLobbyEnv(defaults)
            /\ lightsRead' = [lightsRead EXCEPT !.how = "rejected", !.mounted = ~cancelled]
  /\ UNCHANGED cancelled
  /\ UNCHANGED notLightsVars

\* r.text() settles: a rejection goes to .catch; a body goes to the second
\* .then, which returns at once if cancelled, and else parses and validates.
LightsTextSettled ==
  /\ lightsPc = "text"
  /\ lightsPc' = "done"
  /\ \/ /\ SetLobbyEnv(defaults)
        /\ lightsRead' = [lightsRead EXCEPT !.how = "rejected", !.mounted = ~cancelled]
     \/ \E doc \in LightsDocs :
          /\ lightsRead' = [how |-> IF doc.kind = "invalid" THEN "invalid" ELSE "parsed",
                            doc |-> doc, mounted |-> ~cancelled]
          /\ IF cancelled THEN UNCHANGED lobbyEnv
             ELSE IF doc.kind = "invalid" THEN SetLobbyEnv(defaults)
             ELSE SetLobbyEnv(LockPreset(validateEnv(doc, defaults)))
  /\ UNCHANGED cancelled
  /\ UNCHANGED notLightsVars

\* the unmount cleanup: cancelled = true
LightsUnmount ==
  /\ ~cancelled
  /\ cancelled' = TRUE
  /\ UNCHANGED <<lobbyEnv, lightsPc, lightsRead>>
  /\ UNCHANGED notLightsVars

NextLights == LightsFetchSettled \/ LightsTextSettled \/ LightsUnmount

(***************************************************************************)
(* LIGHTNING (part_000 LightningClassic; ghostRunning Lightning).  Units:  *)
(* positions in 1/100 world unit, time in ticks of 0.02 s, a draw of the   *)
(* generator is its leading 8 bits (rand() = q / 256), unit vectors in     *)
(* 1/1000.  A 32-bit word is the pair <<high 16 bits, low 16 bits>>.  Each *)
(* strike is built twice, once per run, with the same seeded draws and     *)
(* independent Math.random() draws.                                        *)
(***************************************************************************)
MaxStrikes == 2         \* no strike is built after this many

RECURSIVE BitXor(_, _, _)
BitXor(a, b, n) ==
  IF n = 0 THEN 0 ELSE ((a + b) % 2) + 2 * BitXor(a \div 2, b \div 2, n - 1)

RECURSIVE BitOr(_, _, _)
BitOr(a, b, n) ==
  IF n = 0 THEN 0
  ELSE Max(a % 2, b % 2) + 2 * BitOr(a \div 2, b \div 2, n - 1)

RECURSIVE Pow2(_)
Pow2(n) == IF n = 0 THEN 1 ELSE 2 * Pow2(n - 1)

Xor32(x, y) == <<BitXor(x[1], y[1], 16), BitXor(x[2], y[2], 16)>>

\* x | c for a constant c below 2^16
Or32(x, c) == <<x[1], BitOr(x[2], c, 16)>>

\* x >>> s for 0 < s < 16
Shr32(x, s) ==
  <<x[1] \div Pow2(s), (x[1] % Pow2(s)) * Pow2(16 - s) + x[2] \div Pow2(s)>>

\* (x + y) >>> 0
Add32(x, y) ==
  <<(x[1] + y[1] + (x[2] + y[2]) \div Pow2(16)) % Pow2(16),
    (x[2] + y[2]) % Pow2(16)>>

\* the full product of two 16-bit numbers, as <<high, low>>
Mul16(x, y) ==
  LET p1 == (x % 256) * y
      p2 == (x \div 256) * y
      t == (p2 % 256) * 256 + p1
  IN <<p2 \div 256 + t \div Pow2(16), t % Pow2(16)>>

\* Math.imul(x, y): the low 32 bits of the product
Imul(x, y) ==
  LET ll == Mul16(x[2], y[2])
  IN <<(ll[1] + Mul16(x[2], y[1])[2] + Mul16(x[1], y[2])[2]) % Pow2(16),
       ll[2]>>

\* 0x6D2B79F5
MulberryStep == <<27947, 31221>>

\* the n-th call of the function mulberry32(seed) returns
mulberry32(seed, n) ==
  LET t0 == Add32(seed, Imul(<<0, n>>, MulberryStep))
      t1 == Imul(Xor32(t0, Shr32(t0, 15)), Or32(t0, 1))
      t2 == Xor32(t1, Add32(t1, Imul(Xor32(t1, Shr32(t1, 7)), Or32(t1, 61))))
      t3 == Xor32(t2, Shr32(t2, 14))
  IN t3[1] \div 256

\* 1013904223
StrikeStep == <<15470, 62303>>

\* (state.current.strikeSeed + 1013904223) >>> 0 || 1
NextStrikeSeed(s) ==
  LET n == Add32(s, StrikeStep) IN IF n = <<0, 0>> THEN <<0, 1>> ELSE n

\* the draws of rand = mulberry32(seed), by call number
SeededTape(seed) == [n \in Nat |-> mulberry32(seed, n)]

RECURSIVE SqrtBetween(_, _, _)
SqrtBetween(n, lo, hi) ==
  IF lo >= hi THEN lo
  ELSE LET mid == (lo + hi + 1) \div 2
       IN IF mid * mid <= n THEN SqrtBetween(n, mid, hi)
          ELSE SqrtBetween(n, lo, mid - 1)

\* floor of the square root, for n below 2^30
SqrtFloor(n) == SqrtBetween(n, 0, 32767)

Dot(u, v) == u[1] * v[1] + u[2] * v[2] + u[3] * v[3]

\* a.distanceTo(b)
distanceTo(a, b) ==
  LET d == <<b[1] - a[1], b[2] - a[2], b[3] - a[3]>> IN SqrtFloor(Dot(d, d))

\* randomPerpRand(dir, rand) with the draws tape[i], tape[i+1], tape[i+2];
\* Vector3.normalize leaves the zero vector as it is
randomPerpRand(dir, tape, i) ==
  LET v == <<tape[i] - 128, tape[i + 1] - 128, tape[i + 2] - 128>>
      d == Dot(v, dir)
      l2 == Max(1, Dot(dir, dir))
      w == <<v[1] - (dir[1] * d) \div l2, v[2] - (dir[2] * d) \div l2,
             v[3] - (dir[3] * d) \div l2>>
      len == SqrtFloor(Dot(w, w))
  IN IF len = 0 THEN <<0, 0, 0>>
     ELSE <<(w[1] * 1000) \div len, (w[2] * 1000) \div len,
            (w[3] * 1000) \div len>>

\* the displaced midpoint of p0 and p1
MidPoint(p0, p1, disp, tape, i) ==
  LET dir == <<p1[1] - p0[1], p1[2] - p0[2], p1[3] - p0[3]>>
      n == randomPerpRand(dir, tape, i)
      s == ((2 * tape[i + 3] - 256) * disp) \div 256
  IN <<(p0[1] + p1[1]) \div 2 + (n[1] * s) \div 1000,
       (p0[2] + p1[2]) \div 2 + (n[2] * s) \div 1000,
       (p0[3] + p1[3]) \div 2 + (n[3] * s) \div 1000>>

\* a pass that pushes p1 and forgets the midpoint
BoltPush_NoMid(mid, p1) == <<p1>>

\* next.push(mid, p1)
BoltPush(mid, p1) == <<mid, p1>>

\* the inner loop of one pass, from the pair (pts[j], pts[j+1]) on
RECURSIVE BoltPassFrom(_, _, _, _, _)
BoltPassFrom(pts, j, disp, tape, i) ==
  IF j >= Len(pts) THEN <<>>
  ELSE BoltPush(MidPoint(pts[j], pts[j + 1], disp, tape, i), pts[j + 1])
         \o BoltPassFrom(pts, j + 1, disp, tape, i + 4)

\* the point lists after each of the k passes still to run
RECURSIVE BoltPasses(_, _, _, _, _, _)
BoltPasses(pts, k, disp, roughness, tape, i) ==
  IF k <= 0 THEN <<>>
  ELSE LET next == <<pts[1]>> \o BoltPassFrom(pts, 1, disp, tape, i)
       IN <<next>> \o BoltPasses(next, k - 1, (disp * roughness) \div 100,
                                  roughness, tape, i + 4 * (Len(pts) - 1))

\* makeBoltPointsRand(a, b, {subdivisions, sway, roughness}, rand) and
\* makeBoltPoints(a, b, {...}): the list before the first pass and after
\* each pass; sway is in 1/10, roughness in 1/100
makeBoltPasses(a, b, subdivisions, sway, roughness, tape, i) ==
  <<<<a, b>>>> \o BoltPasses(<<a, b>>, subdivisions,
                            (sway * distanceTo(a, b) * 5) \div 1000,
                            roughness, tape, i)

makeBoltPointsRand(a, b, subdivisions, sway, roughness, tape, i) ==
  LET ps == makeBoltPasses(a, b, subdivisions, sway, roughness, tape, i)
  IN ps[Len(ps)]

\* a repair that never finds anything to lower
NeedsStep_Never(y, lastY, minStep) == FALSE

\* out[i].y >= lastY - minStep
NeedsStep(y, lastY, minStep) == y >= lastY - minStep

\* the loop of enforceDownward from index i on; mr[i] is the value of
\* Math.random() * 0.04 drawn for point i
RECURSIVE enforceDownwardFrom(_, _, _, _, _)
enforceDownwardFrom(pts, i, lastY, minStep, mr) ==
  IF i > Len(pts) THEN <<>>
  ELSE LET y == IF NeedsStep(pts[i][2], lastY, minStep)
                THEN lastY - (minStep + mr[i])
                ELSE pts[i][2]
       IN <<<<pts[i][1], y, pts[i][3]>>>>
            \o enforceDownwardFrom(pts, i + 1, y, minStep, mr)

enforceDownward(pts, minStep, mr) ==
  <<pts[1]>> \o enforceDownwardFrom(pts, 2, pts[1][2], minStep, mr)

\* enforceDownward(pts, minStep = 0.02)
DefaultMinStep == 2

\* the runs differ in what Math.random() returns; its n-th value in a run
MathRandomRuns == {0, 1, 2}

MathRandom(run, n) == (run * 89 + n * 151) % 256

\* the draws of a bolt built from Math.random() alone
MathTape(run) == [n \in Nat |-> MathRandom(run, n)]

\* Math.random() * 0.04 for the point i
StepJitter(run) == [n \in Nat |-> (MathRandom(run, n) * 4) \div 256]

\* cos and sin of rand() * 2 * PI, in 1/1000, by eighth of the circle
CosSin ==
  <<<<1000, 0>>, <<707, 707>>, <<0, 1000>>, <<-707, 707>>,
    <<-1000, 0>>, <<-707, -707>>, <<0, -1000>>, <<707, -707>>>>

\* pickVerticalEndpointsRand(cloudY, cloudRadius, {...}, rand) with the six
\* draws tape[i] .. tape[i+5]; topBand = [1.0, 2.6]
pickVerticalEndpointsRand(p, tape, i) ==
  LET cs == CosSin[tape[i] \div 32 + 1]
      r == (p.cloudRadius * 100 * (35 * 256 + 65 * tape[i + 1])) \div 25600
      ay == p.cloudY * 100 + 100 + (160 * tape[i + 2]) \div 256
      a == <<(cs[1] * r) \div 1000, ay, (cs[2] * r) \div 1000>>
      h == p.minHeight + ((p.maxHeight - p.minHeight) * tape[i + 3]) \div 256
  IN <<a, <<a[1] + ((2 * tape[i + 4] - 256) * p.lateralJitter) \div 256,
            ay - h,
            a[3] + ((2 * tape[i + 5] - 256) * p.lateralJitter) \div 256>>,
       i + 6>>

\* the while (true) loop of build: <<a, b, index of the next draw>>
RECURSIVE PickEndpoints(_, _, _, _)
PickEndpoints(p, tape, i, tries) ==
  LET e == pickVerticalEndpointsRand(p, tape, i)
      d == distanceTo(e[1], e[2])
  IN IF 100 * Abs(e[1][2] - e[2][2]) >= p.minVerticality * Max(1, d)
        \/ tries > 10
     THEN e
     ELSE PickEndpoints(p, tape, e[3], tries + 1)

Reverse(s) == [j \in 1..Len(s) |-> s[Len(s) + 1 - j]]

\* if (main[0].y < main[main.length - 1].y) main.reverse()
ReverseIfRising(main) ==
  IF main[1][2] < main[Len(main)][2] THEN Reverse(main) ELSE main

\* makeBranch(points, startIndex, {heightRange, lateralJitter}) of
\* ghostRunning, with Math.random() draws tape[i] .. ; heights in 1/100
makeBranch(points, startIndex, lo, hi, jitter, run, i) ==
  LET tape == MathTape(run)
      p == points[Max(1, Min(Len(points) - 2, startIndex)) + 1]
      h == lo + ((hi - lo) * tape[i]) \div 256
      target == <<p[1] + ((2 * tape[i + 1] - 256) * jitter) \div 256,
                  p[2] - h,
                  p[3] + ((2 * tape[i + 2] - 256) * jitter) \div 256>>
  IN enforceDownward(makeBoltPointsRand(p, target, 3, 9, 65, tape, i + 3),
                     DefaultMinStep, StepJitter(run))

\* <LightningClassic seed=... /> in part_000, <Lightning /> in ghostRunning
LightningProps(classic, seed, subdivisions, sway) ==
  [classic |-> classic, enabled |-> TRUE, cloudY |-> 20, cloudRadius |-> 40,
   minDelay |-> 1, maxDelay |-> 3,
   minDur |-> IF classic THEN 9 ELSE 6, maxDur |-> IF classic THEN 18 ELSE 11,
   minVerticality |-> IF classic THEN 98 ELSE 90,
   minHeight |-> IF classic THEN 1200 ELSE 350,
   maxHeight |-> IF classic THEN 1800 ELSE 700,
   lateralJitter |-> IF classic THEN 5 ELSE 20, branchLateral |-> 40,
   subdivisions |-> subdivisions, sway |-> sway, roughness |-> 62,
   power |-> 8, seed |-> seed]

SeedInputs == {<<0, 1337>>, <<50065, 3233>>}
SubdivisionInputs == {0, 3}
SwayInputs == {12, 120}
FrameDts == {1, 4}

LightningInputs ==
  {LightningProps(TRUE, s, k, w) :
     s \in SeedInputs, k \in SubdivisionInputs, w \in SwayInputs}
    \cup {LightningProps(FALSE, <<0, 0>>, 6, 12)}

\* useRef({ active: false, t: 0, dur: 0.2, cooldown: 0, strikeSeed: seed })
LightningInit ==
  /\ ltProps \in LightningInputs
  /\ ltState = [active |-> FALSE, t |-> 0, dur |-> 10, cooldown |-> 0,
                strikeSeed |-> ltProps.seed]
  /\ ltStrikes = 0
  /\ ltPasses = <<>>
  /\ mainGeo = <<>>
  /\ mainGeoB = <<>>
  /\ branchGeo = <<>>
  /\ ltReversed = FALSE
  /\ thickOpacity = 0

LightningIdle ==
  /\ ltProps = LightningProps(TRUE, <<0, 1337>>, 0, 12)
  /\ ltState = [active |-> FALSE, t |-> 0, dur |-> 10, cooldown |-> 0,
                strikeSeed |-> ltProps.seed]
  /\ ltStrikes = 0
  /\ ltPasses = <<>>
  /\ mainGeo = <<>>
  /\ mainGeoB = <<>>
  /\ branchGeo = <<>>
  /\ ltReversed = FALSE
  /\ thickOpacity = 0

\* the branches of ghostRunning's build for the main bolt of one run
Branches(main, run, i) ==
  LET idx == 3 + (((Len(main) * 7) \div 10 - 3) * MathRandom(run, i)) \div 256
  IN <<makeBranch(main, idx, 120, 240, ltProps.branchLateral, run, i + 1),
       makeBranch(main, Max(2, idx - 2), 100, 200,
                  (ltProps.branchLateral * 7) \div 10, run, i + 32)>>

\* the point lists of makeBoltPointsRand / makeBoltPoints in build()
BuildPasses(tape) ==
  LET e == PickEndpoints(ltProps, tape, 1, 0)
  IN makeBoltPasses(e[1], e[2], ltProps.subdivisions, ltProps.sway,
                    ltProps.roughness, tape, e[3])

\* what build() leaves behind, in the two runs runA and runB
BuildDone(seed, dt, dur, passes, rawB, runA, runB) ==
  \E down \in {enforceDownward(passes[Len(passes)], DefaultMinStep,
                               StepJitter(runA))} :
     /\ ltState' = [ltState EXCEPT !.active = TRUE, !.t = 0, !.dur = dur,
                                   !.cooldown = @ - dt, !.strikeSeed = seed]
     /\ ltStrikes' = ltStrikes + 1
     /\ ltPasses' = passes
     /\ mainGeo' = ReverseIfRising(down)
     /\ mainGeoB' = ReverseIfRising(
                      enforceDownward(rawB, DefaultMinStep, StepJitter(runB)))
     /\ branchGeo' = IF ltProps.classic THEN <<>>
                     ELSE Branches(mainGeo', runA, 300)
     /\ ltReversed' = (down[1][2] < down[Len(down)][2])

\* s.cooldown -= dt; s.active = true; s.t = 0; s.dur = ...; build().  The
\* second run of a <Lightning /> draws what the first one drew.
build(dts) ==
  IF ltProps.classic
  THEN \E seed \in {NextStrikeSeed(ltState.strikeSeed)} :
         \E passes \in {BuildPasses(SeededTape(seed))} :
           \E dt \in dts, dur \in {ltProps.minDur, ltProps.maxDur},
              runA \in MathRandomRuns, runB \in MathRandomRuns :
             BuildDone(seed, dt, dur, passes, passes[Len(passes)], runA, runB)
  ELSE \E runA \in MathRandomRuns :
         \E passes \in {BuildPasses(MathTape(runA))} :
           \E dt \in dts, dur \in {ltProps.minDur, ltProps.maxDur} :
             BuildDone(ltState.strikeSeed, dt, dur, passes,
                       passes[Len(passes)], runA, runA)

\* the opacity of the thick line at s.t / s.dur, in 1/1000
Opacity(t, dur) ==
  LET e == (t * 1000) \div dur
      core == IF e < 80 THEN (e * 1000) \div 80
              ELSE Max(0, 1000 - ((e - 80) * 1000) \div 350)
      glow == (Max(0, 220 - e) * 7) \div 10
  IN Min(1000, Min(1000, Max(0, core + glow)) * ltProps.power)

\* useFrame((_, dt) => { ... })
LightningFrame ==
  /\ ltProps.enabled
  /\ IF ~ltState.active
     THEN \/ /\ ltStrikes < MaxStrikes
             /\ build({dt \in FrameDts : ltState.cooldown - dt <= 0})
             /\ UNCHANGED <<ltProps, thickOpacity>>
          \/ \E dt \in FrameDts :
               /\ ltState.cooldown - dt > 0
               /\ ltState' = [ltState EXCEPT !.cooldown = @ - dt]
               /\ UNCHANGED <<ltProps, ltStrikes, ltPasses, mainGeo,
                              mainGeoB, branchGeo, ltReversed, thickOpacity>>
     ELSE \E dt \in FrameDts :
            /\ IF ltState.t + dt >= ltState.dur
               THEN /\ \E c \in {ltProps.minDelay, ltProps.maxDelay} :
                         ltState' = [ltState EXCEPT !.t = @ + dt,
                                        !.active = FALSE, !.cooldown = c]
                    /\ thickOpacity' = 0
               ELSE /\ ltState' = [ltState EXCEPT !.t = @ + dt]
                    /\ thickOpacity' = Opacity(ltState.t + dt, ltState.dur)
            /\ UNCHANGED <<ltProps, ltStrikes, ltPasses, mainGeo, mainGeoB,
                           branchGeo, ltReversed>>
  /\ UNCHANGED notLightningVars

NextLightning == LightningFrame

(***************************************************************************)
(* SCORE AND MUSIC (part_000 ScoreTicker, App).  scoreRef in 1/10000,      *)
(* frame dt in ms, energy in 1/10000, performance.now() in ticks of 50 ms. *)
(* A state set by a handler reaches ScoreTicker's props, and the effects   *)
(* of App, only at the next commit.                                        *)
(***************************************************************************)
MaxFrames == 3          \* no frame adds to the score after this many did
MaxClock == 8           \* the clock stops advancing here

START_MV == 35
HOLD_TICKS == 5         \* const HOLD_MS = 250

MvInputs == {20, 21, 35, 36, 400}
DtRawInputs == {16, 100}

\* Math.exp(-x) for x >= -1 in 1/10000, from the series of exp(-x/8)
ExpNeg(x) ==
  LET y == x \div 8
      t2 == (y * y) \div 20000
      t3 == (t2 * y) \div 30000
      e1 == 10000 - y + t2 - t3
      e2 == (e1 * e1) \div 10000
      e4 == (e2 * e2) \div 10000
  IN (e4 * e4) \div 10000

\* a ticker that takes the frame time as it comes
ScoreDt_Raw(dtRaw) == dtRaw

\* const dt = Math.min(dtRaw, 0.05)
ScoreDt(dtRaw) == Min(dtRaw, 50)

\* const energy = 1 - Math.exp(-Math.max(0, motionValue - 20) / 180)
Energy(mv) == 10000 - ExpNeg((Max(0, mv - 20) * 10000) \div 180)

\* useState / useRef of App after the mount, before the audio starts
ScoreInit ==
  /\ scoreRef = 0
  /\ score = 0
  /\ gameActive = FALSE
  /\ appMv = 0
  /\ tkActive = FALSE
  /\ tkMv = 0
  /\ audioPlaying = FALSE
  /\ frozen = FALSE
  /\ gLast = [op |-> "mount", dt |-> 0]
  /\ gFrames = 0

ScoreIdle == ScoreInit

\* the audio element starts playing: onPlay
OnPlay ==
  /\ ~audioPlaying
  /\ audioPlaying' = TRUE
  /\ scoreRef' = 0
  /\ score' = 0
  /\ gameActive' = TRUE
  /\ autoRotate' = TRUE
  /\ frozen' = FALSE
  /\ gLast' = [op |-> "play", dt |-> 0]
  /\ UNCHANGED <<appMv, tkActive, tkMv, gFrames>>
  /\ UNCHANGED notScoreVars

\* the audio element reaches its end: onEnded
OnEnded ==
  /\ audioPlaying
  /\ audioPlaying' = FALSE
  /\ gameActive' = FALSE
  /\ autoRotate' = FALSE
  /\ frozen' = TRUE
  /\ gLast' = [op |-> "ended", dt |-> 0]
  /\ UNCHANGED <<scoreRef, score, appMv, tkActive, tkMv, gFrames>>
  /\ UNCHANGED notScoreVars

\* <MotionDetector onChange={setMotionValue} />
SetMotionValue ==
  /\ \E v \in MvInputs : v # appMv /\ appMv' = v
  /\ gLast' = [op |-> "change", dt |-> 0]
  /\ UNCHANGED <<scoreRef, score, gameActive, tkActive, tkMv, audioPlaying,
                 frozen, gFrames, autoRotate>>
  /\ UNCHANGED notScoreVars

\* the commit that renders <ScoreTicker gameActive={gameActive}
\* motionValue={motionValue} ... /> with the current state
CanvasCommit ==
  /\ tkActive # gameActive \/ tkMv # appMv
  /\ tkActive' = gameActive
  /\ tkMv' = appMv
  /\ gLast' = [op |-> "commit", dt |-> 0]
  /\ UNCHANGED <<scoreRef, score, gameActive, appMv, audioPlaying, frozen,
                 gFrames, autoRotate>>
  /\ UNCHANGED notScoreVars

\* ScoreTicker's useFrame((_, dtRaw) => { ... })
ScoreFrame ==
  /\ \E dtRaw \in DtRawInputs :
       /\ gLast' = [op |-> "frame", dt |-> dtRaw]
       /\ IF ~tkActive
          THEN UNCHANGED <<scoreRef, score, gFrames>>
          ELSE /\ gFrames < MaxFrames
               /\ gFrames' = gFrames + 1
               /\ scoreRef' = scoreRef
                                + (Energy(tkMv) * 60 * ScoreDt(dtRaw)) \div 1000
               /\ score' = scoreRef' \div 10000
  /\ UNCHANGED <<gameActive, appMv, tkActive, tkMv, audioPlaying, frozen,
                 autoRotate>>
  /\ UNCHANGED notScoreVars

NextScore == OnPlay \/ OnEnded \/ SetMotionValue \/ CanvasCommit \/ ScoreFrame

\* the refs and the audio element after the mount; the hysteresis effect has
\* run once, with motionValue = 0
MusicInit ==
  /\ effMv = 0
  /\ mvSinceRef = 0
  /\ audioStartedRef = FALSE
  /\ audioMuted = TRUE
  /\ audioVolume = 100
  /\ gNow \in 1..2
  /\ holdFrom = 0
  /\ gStarts = 0

MusicIdle ==
  /\ effMv = 0
  /\ mvSinceRef = 0
  /\ audioStartedRef = FALSE
  /\ audioMuted = TRUE
  /\ audioVolume = 100
  /\ gNow = 1
  /\ holdFrom = 0
  /\ gStarts = 0

\* an effect that leaves the timer running when the value is low
SinceAfterLow_Keep(since) == since

\* else { mvSinceRef.current = 0 }
SinceAfterLow(since) == 0

\* the commit of App with a new motionValue, and its hysteresis effect;
\* startMusicAndRotate runs inside it
AppCommit ==
  /\ effMv # appMv
  /\ effMv' = appMv
  /\ LET since == IF appMv > START_MV
                  THEN IF mvSinceRef = 0 THEN gNow ELSE mvSinceRef
                  ELSE SinceAfterLow(mvSinceRef)
         start == appMv > START_MV /\ gNow - since > HOLD_TICKS
                    /\ ~audioStartedRef
     IN /\ mvSinceRef' = since
        /\ audioStartedRef' = (audioStartedRef \/ start)
        /\ audioMuted' = IF start THEN FALSE ELSE audioMuted
        /\ audioVolume' = IF start THEN 0 ELSE audioVolume
        /\ autoRotate' = IF start THEN TRUE ELSE autoRotate
        /\ gStarts' = IF start THEN gStarts + 1 ELSE gStarts
  /\ holdFrom' = IF appMv > START_MV
                 THEN IF holdFrom = 0 THEN gNow ELSE holdFrom
                 ELSE 0
  /\ UNCHANGED <<gNow, scoreVars>>
  /\ UNCHANGED notGameVars

\* const fade = () => { v = Math.min(1, v + 0.06); a.volume = v; ... }
FadeFrame ==
  /\ audioStartedRef
  /\ audioVolume < 100
  /\ audioVolume' = Min(100, audioVolume + 6)
  /\ UNCHANGED <<effMv, mvSinceRef, audioStartedRef, audioMuted, gNow,
                 holdFrom, gStarts, scoreVars, autoRotate>>
  /\ UNCHANGED notGameVars

\* time passes
ClockTick ==
  /\ gNow < MaxClock
  /\ gNow' = gNow + 1
  /\ UNCHANGED <<effMv, mvSinceRef, audioStartedRef, audioMuted, audioVolume,
                 holdFrom, gStarts, scoreVars, autoRotate>>
  /\ UNCHANGED notGameVars

NextMusic == SetMotionValue \/ AppCommit \/ FadeFrame \/ ClockTick

(***************************************************************************)
(* MOTION DETECTOR, onResults alone: a stream of pose results, each handed *)
(* to onResults at the time it arrives.  Units as above.                   *)
(***************************************************************************)
MaxResultNow == 7       \* the clock of the stream stops advancing here

NoCall == [kind |-> "none", res |-> CHOOSE r \in PoseResults : ~r.has,
           at |-> 0, prev |-> FreshSt, called |-> FALSE, val |-> 0]

\* the first result arrives when the page has been open for a while
ResultsInit ==
  /\ rsNow = MIN_GAP
  /\ rsSt = FreshSt
  /\ rsCall = NoCall

ResultsIdle == ResultsInit

RsTick ==
  /\ rsNow < MaxResultNow
  /\ rsNow' = rsNow + 1
  /\ UNCHANGED <<rsSt, rsCall>>
  /\ UNCHANGED notResultsVars

\* pose.onResults(onResults): a result arrives
RsResult ==
  /\ \E res \in PoseResults :
       LET r == onResults(rsSt, res, rsNow)
       IN /\ rsSt' = r.st
          /\ rsCall' = [kind |-> "result", res |-> res, at |-> rsNow,
                        prev |-> rsSt, called |-> r.called, val |-> r.val]
  /\ UNCHANGED rsNow
  /\ UNCHANGED notResultsVars

NextResults == RsTick \/ RsResult

(***************************************************************************)
(* MOTION TO RAIN (part_000 App).  tRain and the opacity in 1/10000; the   *)
(* motionValue of step i is 5 * i.                                         *)
(***************************************************************************)
MaxRainStep == 300      \* the largest motionValue is 5 * MaxRainStep

RAIN_MIN_COUNT == 120
RAIN_MAX_COUNT == 800
RAIN_MIN_OP == 1600
RAIN_MAX_OP == 7500
RAIN_SPLIT == 5000
RAIN_SENS == 200

RainMvInputs == {5 * i : i \in 0..MaxRainStep}

\* Math.exp(-x) for any x >= 0 in 1/10000
RECURSIVE ExpNegLarge(_)
ExpNegLarge(x) ==
  IF x <= 20000 THEN ExpNeg(x)
  ELSE (ExpNegLarge(x \div 2) * ExpNegLarge(x - x \div 2)) \div 10000

\* const tRain = 1 - Math.exp(-Math.max(0, motionValue) / RAIN_SENS)
tRain(mv) == 10000 - ExpNegLarge((Max(0, mv) * 10000) \div RAIN_SENS)

\* THREE.MathUtils.lerp(x, y, t) for t in 1/10000
lerp(x, y, t) == x + ((y - x) * t) \div 10000

\* Math.round(THREE.MathUtils.lerp(RAIN_MIN_COUNT, RAIN_MAX_COUNT, k))
RainCountAt(k) ==
  (RAIN_MIN_COUNT * 10000 + (RAIN_MAX_COUNT - RAIN_MIN_COUNT) * k + 5000)
    \div 10000

\* phase B with an opacity that keeps growing
RainPhaseB_Unpinned(k) ==
  [opacity |-> lerp(RAIN_MIN_OP, RAIN_MAX_OP, k),
   count |-> RainCountAt(k)]

\* Phase B: opacity pinned max, count grows
RainPhaseB(k) ==
  [opacity |-> RAIN_MAX_OP,
   count |-> RainCountAt(k)]

\* Phase A: only opacity grows (count fixed at min)
RainPhaseA(k) ==
  [opacity |-> lerp(RAIN_MIN_OP, RAIN_MAX_OP, k), count |-> RAIN_MIN_COUNT]

\* dynamicRainOpacity and dynamicRainCount of a render with motionValue mv
DynamicRain(mv) ==
  IF tRain(mv) <= RAIN_SPLIT
  THEN RainPhaseA((tRain(mv) * 10000) \div Max(1, RAIN_SPLIT))
  ELSE RainPhaseB(((tRain(mv) - RAIN_SPLIT) * 10000)
                    \div Max(1, 10000 - RAIN_SPLIT))

\* the first render: useState(0)
RainMapInit ==
  /\ rdMv = 0
  /\ dynamicRain = DynamicRain(0)

RainMapIdle == RainMapInit

\* setMotionValue(v) and the render that follows
RainMapRender ==
  /\ \E v \in RainMvInputs :
       /\ v # rdMv
       /\ rdMv' = v
       /\ dynamicRain' = DynamicRain(v)
  /\ UNCHANGED notRainMapVars

NextRainMap == RainMapRender

(***************************************************************************)
(* MOUNTAINS AND BATS (part_000 Mountains, App).  Lengths in 1/1000, as in *)
(* env.  The settings file changes env after the first render.             *)
(***************************************************************************)
\* the env section of a settings file: any of these keys
EnvFileKeys ==
  "baseRadius" :> Num(60000) @@ "ringCount" :> Num(5000)
    @@ "ringSpacing" :> Num(10000) @@ "yBase" :> Num(-2000)
    @@ "fogDensity" :> Num(20)

\* two files that differ in one key
EnvFileOther == "baseRadius" :> Num(50000)

EnvFiles ==
  {[k \in d |-> EnvFileKeys[k]] : d \in SUBSET DOMAIN EnvFileKeys}
    \cup {EnvFileOther}

\* ringsRef.current = Array.from({ length: ringCount }, (_, i) => ({ ...,
\* radius: baseRadius + i * ringSpacing, ... })): the radii
MountainRings(e) ==
  [i \in 1..(e["ringCount"].n \div 1000) |->
     e["baseRadius"].n + (i - 1) * e["ringSpacing"].n]

\* if (!ringsRef.current) { ringsRef.current = ... }
RingsAfterRender(rings, e) == IF rings = <<>> THEN MountainRings(e) ELSE rings

\* env.baseRadius + (env.ringCount - 1) * env.ringSpacing
outerMountainRadius(e) ==
  e["baseRadius"].n + ((e["ringCount"].n - 1000) * e["ringSpacing"].n) \div 1000

\* the first render of App with the default env; the Suspense boundary may
\* still keep Mountains and the bats from mounting
SceneInit ==
  /\ AutoLoadInit
  /\ scRendered \in BOOLEAN
  /\ ringsRef = IF scRendered THEN MountainRings(env) ELSE <<>>
  /\ batsRadius = IF scRendered THEN outerMountainRadius(env) ELSE 0

SceneIdle ==
  /\ scRendered = FALSE
  /\ ringsRef = <<>>
  /\ batsRadius = 0

\* res.text() settles with a file whose only section is env:
\* if (parsed.env) setEnv(s => ({ ...s, ...parsed.env }))
SceneEnvLoaded ==
  /\ loadPc = "text"
  /\ loadPc' = "idle"
  /\ loadOutcome' = "valid"
  /\ \E own \in EnvFiles : env' = Spread(env, own)
  /\ UNCHANGED <<sky, coaster, rain, imgRing, imgItems, autoRotate, pickDoc,
                 panelKey, uiKey, fileValue, savedDoc, saveHist>>
  /\ UNCHANGED <<scRendered, ringsRef, batsRadius>>
  /\ UNCHANGED notSceneVars

\* a render of App and of the children of the Suspense boundary
SceneRender ==
  /\ scRendered' = TRUE
  /\ ringsRef' = RingsAfterRender(ringsRef, env)
  /\ batsRadius' = outerMountainRadius(env)
  /\ UNCHANGED <<settingVars, fileVars>>
  /\ UNCHANGED notSceneVars

NextScene == AutoLoadFetchSettled \/ SceneEnvLoaded \/ SceneRender

(***************************************************************************)
(* LOADPOSE: MotionDetector.probeBase / loadTag / loadPoseFrom / loadPose  *)
(* (src/unnamed/part_000:1005-1059), one step per await                    *)
(***************************************************************************)
MaxLoadCalls == 2

LOCAL_BASE == "local"
CDN_UNPKG == "unpkg"
CDN_JSD == "jsdelivr"
BASES == <<LOCAL_BASE, CDN_UNPKG, CDN_JSD>>

\* how a fetch of the probe settles: a response with ok, one without, a rejection
FetchOutcomes == {"ok", "notOk", "rejected"}

\* what a loaded script leaves in window.Pose: nothing new, the constructor,
\* a namespace holding the constructor, or an object that is neither
ScriptDefines == {"keep", "fn", "ns", "obj"}

\* mutant: the probe is content with one of the three files
probeBase_Some(checks) ==
  /\ \A k \in 1..3 : checks[k] # "rejected"
  /\ \E k \in 1..3 : checks[k] = "ok"

\* probeBase: Promise.all rejects if a fetch rejects (caught: false);
\* otherwise checks.every(r => r.ok)
probeBase(checks) ==
  /\ \A k \in 1..3 : checks[k] # "rejected"
  /\ \A k \in 1..3 : checks[k] = "ok"

\* PoseCtor = PoseNS?.Pose || PoseNS; typeof PoseCtor === 'function'
PoseCtorFound(wp) == wp \in {"fn", "ns"}

NoError == [base |-> "none", msg |-> "null"]
NoOutcome == [kind |-> "none", base |-> "none", msg |-> "none"]
NewAttempt(base) ==
  [base |-> base, probe |-> <<>>, tag |-> "none", wp |-> "none", init |-> "none"]

\* throw lastErr || new Error('All pose bases failed')
ThrownOf(err) ==
  IF err = NoError THEN [base |-> "none", msg |-> "All pose bases failed"] ELSE err

LoadPoseInit ==
  /\ lpPc = [i |-> 0, at |-> "idle"]
  /\ windowPose = "undefined"
  /\ lpTags = <<>>
  /\ lpLog = <<>>
  /\ lastErr = NoError
  /\ lpOut = NoOutcome
  /\ lpCalls = 0

LoadPoseIdle == LoadPoseInit

\* loadPoseFrom(BASES[i]) up to its first await: the probe for the local
\* base; for the others loadTag, which appends the <script> at once.
loadPoseFrom(i, log, tags) ==
  /\ lpLog' = Append(log, NewAttempt(BASES[i]))
  /\ IF BASES[i] = LOCAL_BASE
     THEN /\ lpPc' = [i |-> i, at |-> "probe"]
          /\ lpTags' = tags
     ELSE /\ lpPc' = [i |-> i, at |-> "tag"]
          /\ lpTags' = Append(tags, BASES[i])

\* catch (e) { lastErr = e } and the next round of the loop, or the throw after it
LoadPoseCatch(msg, log) ==
  LET e == [base |-> BASES[lpPc.i], msg |-> msg] IN
  /\ lastErr' = e
  /\ IF lpPc.i < Len(BASES)
     THEN /\ loadPoseFrom(lpPc.i + 1, log, lpTags)
          /\ UNCHANGED lpOut
     ELSE /\ lpPc' = [i |-> lpPc.i, at |-> "thrown"]
          /\ lpOut' = [kind |-> "error"] @@ ThrownOf(e)
          /\ lpLog' = log
          /\ UNCHANGED lpTags

\* pose.setOptions(...); return pose -- and loadPose returns it
LoadPoseReturn(log) ==
  /\ lpPc' = [i |-> lpPc.i, at |-> "returned"]
  /\ lpOut' = [kind |-> "pose", base |-> BASES[lpPc.i], msg |-> "setOptions"]
  /\ lpLog' = log
  /\ UNCHANGED <<lastErr, lpTags>>

LastAttempt(field, v) == [lpLog EXCEPT ![Len(lpLog)][field] = v]

\* start() calls loadPose(): lastErr = null, and the first base is tried
loadPose ==
  /\ lpPc.at \in {"idle", "returned", "thrown"}
  /\ lpCalls < MaxLoadCalls
  /\ lpCalls' = lpCalls + 1
  /\ lastErr' = NoError
  /\ lpOut' = NoOutcome
  /\ loadPoseFrom(1, <<>>, <<>>)
  /\ UNCHANGED windowPose
  /\ UNCHANGED notLoadPoseVars

\* await probeBase(baseHref) settles
LoadPoseProbed ==
  /\ lpPc.at = "probe"
  /\ \E checks \in [1..3 -> FetchOutcomes] :
       LET log == LastAttempt("probe", checks) IN
       IF probeBase(checks)
       THEN /\ lpPc' = [lpPc EXCEPT !.at = "tag"]
            /\ lpTags' = Append(lpTags, BASES[lpPc.i])
            /\ lpLog' = log
            /\ UNCHANGED <<lastErr, lpOut>>
       ELSE LoadPoseCatch("Local assets missing", log)
  /\ UNCHANGED <<windowPose, lpCalls>>
  /\ UNCHANGED notLoadPoseVars

\* await loadTag(...) settles; on load the constructor is looked up, the pose
\* is constructed and, if it has one, initialize() is awaited
LoadPoseTagSettled ==
  /\ lpPc.at = "tag"
  /\ \E loaded \in BOOLEAN, defines \in ScriptDefines, hasInitialize \in BOOLEAN :
       IF ~loaded
       THEN /\ LoadPoseCatch("Failed to load <script>", LastAttempt("tag", "failed"))
            /\ UNCHANGED windowPose
       ELSE LET wp == IF defines = "keep" THEN windowPose ELSE defines
                log == [lpLog EXCEPT ![Len(lpLog)].tag = "loaded",
                                     ![Len(lpLog)].wp = wp]
            IN  /\ windowPose' = wp
                /\ IF ~PoseCtorFound(wp)
                   THEN LoadPoseCatch("Pose constructor not found", log)
                   ELSE IF hasInitialize
                   THEN /\ lpPc' = [lpPc EXCEPT !.at = "init"]
                        /\ lpLog' = log
                        /\ UNCHANGED <<lastErr, lpOut, lpTags>>
                   ELSE LoadPoseReturn([log EXCEPT ![Len(log)].init = "absent"])
  /\ UNCHANGED lpCalls
  /\ UNCHANGED notLoadPoseVars

\* await pose.initialize() settles
LoadPoseInitialized ==
  /\ lpPc.at = "init"
  /\ \E ok \in BOOLEAN :
       IF ok
       THEN LoadPoseReturn(LastAttempt("init", "ok"))
       ELSE LoadPoseCatch("initialize rejected", LastAttempt("init", "rejected"))
  /\ UNCHANGED <<windowPose, lpCalls>>
  /\ UNCHANGED notLoadPoseVars

NextLoadPose ==
  loadPose \/ LoadPoseProbed \/ LoadPoseTagSettled \/ LoadPoseInitialized

(***************************************************************************)
(* SPECIFICATIONS                                                          *)
(***************************************************************************)
NextRain == RainRender \/ RainFrame

BaseIdle ==
  RainIdle /\ LutIdle /\ CoasterIdle /\ MotionIdle /\ SettingsIdle /\ LightsIdle

LaterIdleButLoadPose ==
  /\ LightningIdle /\ ScoreIdle /\ MusicIdle /\ ResultsIdle
  /\ RainMapIdle /\ SceneIdle

LaterIdle == LaterIdleButLoadPose /\ LoadPoseIdle

InitRain == RainInit /\ LutIdle /\ CoasterIdle /\ MotionIdle /\ SettingsIdle /\ LightsIdle
  /\ LaterIdle
SpecRain == InitRain /\ [][NextRain]_vars

InitLut == RainIdle /\ LutInit /\ CoasterIdle /\ MotionIdle /\ SettingsIdle /\ LightsIdle
  /\ LaterIdle
SpecLut == InitLut /\ [][NextLut]_vars

InitCoaster == RainIdle /\ LutIdle /\ CoasterInit /\ MotionIdle /\ SettingsIdle /\ LightsIdle
  /\ LaterIdle
SpecCoaster == InitCoaster /\ [][NextCoaster]_vars

InitMotion == RainIdle /\ LutIdle /\ CoasterIdle /\ MotionInit /\ SettingsIdle /\ LightsIdle
  /\ LaterIdle
SpecMotion == InitMotion /\ [][NextMotion]_vars

InitAutoLoad == RainIdle /\ LutIdle /\ CoasterIdle /\ MotionIdle /\ AutoLoadInit /\ LightsIdle
  /\ LaterIdle
SpecAutoLoad == InitAutoLoad /\ [][NextAutoLoad]_vars

InitPanel == RainIdle /\ LutIdle /\ CoasterIdle /\ MotionIdle /\ PanelInit /\ LightsIdle
  /\ LaterIdle
SpecPanel == InitPanel /\ [][NextPanel]_vars

InitLights ==
  RainIdle /\ LutIdle /\ CoasterIdle /\ MotionIdle /\ SettingsIdle /\ LightsInit
  /\ LaterIdle
SpecLights == InitLights /\ [][NextLights]_vars

InitLightning ==
  BaseIdle /\ LightningInit /\ ScoreIdle /\ MusicIdle /\ ResultsIdle
  /\ RainMapIdle /\ SceneIdle /\ LoadPoseIdle
SpecLightning == InitLightning /\ [][NextLightning]_vars

InitScore ==
  BaseIdle /\ LightningIdle /\ ScoreInit /\ MusicIdle /\ ResultsIdle
  /\ RainMapIdle /\ SceneIdle /\ LoadPoseIdle
SpecScore == InitScore /\ [][NextScore]_vars

InitMusic ==
  BaseIdle /\ LightningIdle /\ ScoreInit /\ MusicInit /\ ResultsIdle
  /\ RainMapIdle /\ SceneIdle /\ LoadPoseIdle
SpecMusic == InitMusic /\ [][NextMusic]_vars

InitResults ==
  BaseIdle /\ LightningIdle /\ ScoreIdle /\ MusicIdle /\ ResultsInit
  /\ RainMapIdle /\ SceneIdle /\ LoadPoseIdle
SpecResults == InitResults /\ [][NextResults]_vars

InitRainMap ==
  BaseIdle /\ LightningIdle /\ ScoreIdle /\ MusicIdle /\ ResultsIdle
  /\ RainMapInit /\ SceneIdle /\ LoadPoseIdle
SpecRainMap == InitRainMap /\ [][NextRainMap]_vars

InitScene ==
  /\ RainIdle /\ LutIdle /\ CoasterIdle /\ MotionIdle /\ LightsIdle
  /\ LightningIdle /\ ScoreIdle /\ MusicIdle /\ ResultsIdle /\ RainMapIdle
  /\ SceneInit /\ LoadPoseIdle
SpecScene == InitScene /\ [][NextScene]_vars

InitLoadPose == BaseIdle /\ LaterIdleButLoadPose /\ LoadPoseInit
SpecLoadPose == InitLoadPose /\ [][NextLoadPose]_vars

(***************************************************************************)
(* CLAIMS                                                                  *)
(***************************************************************************)
\* C1: with enabled, speed > 0 and areaHeight >= 0, after every frame update
\* every particle's y lies within [groundY, groundY + areaHeight]; a particle
\* whose integrated y fell below groundY sits at groundY + areaHeight, and the
\* head written to the position buffer is that position (the reset precedes
\* the write), the tail being the head moved against the velocity.
C1_RainWithinArea ==
  (rainFramed /\ rainProps.enabled /\ rainProps.speed > 0 /\ rainProps.areaHeight >= 0) =>
    \A i \in RainIdx :
      /\ rainP[i][2] >= rainProps.groundY
      /\ rainP[i][2] <= rainProps.groundY + rainProps.areaHeight
      /\ (rainInteg[i] < rainProps.groundY =>
            rainP[i][2] = rainProps.groundY + rainProps.areaHeight)
      /\ (rainInteg[i] >= rainProps.groundY => rainP[i][2] = rainInteg[i])
      /\ (rainAttr /\ rainGeo =>
            /\ SubSeq(rainArr[i], 1, 3) = rainP[i]
            /\ SubSeq(rainArr[i], 4, 6) = RainTail(rainP[i], rainV[i], rainProps.length))

\* C1 witness: a frame has just reset a particle that fell below the ground.
C1_Witness ==
  /\ rainFramed /\ rainProps.enabled /\ rainProps.speed > 0 /\ rainProps.areaHeight > 0
  /\ \E i \in RainIdx :
       /\ rainInteg[i] < rainProps.groundY
       /\ rainP[i][2] = rainProps.groundY + rainProps.areaHeight
       /\ rainArr[i][2] = rainP[i][2]

\* The segment a linear scan of the table finds for x: the i with s[i] <= x < s[i+1].
LutLinearScan(l, x) == CHOOSE i \in 0..(l.n - 1) : l.s[i] <= x /\ x < l.s[i + 1]

\* C8: for a table with s[0] = 0, s non-decreasing and s[n] = L > 0, uFromS
\* reduces d into [0, L) (congruent to d modulo L, so d + k*L gives the same
\* result), its binary search ends on adjacent indices lo, hi = lo + 1 with
\* s[lo] <= x < s[hi], and the result is the linear interpolation of u[lo] and
\* u[hi], lies within [0, 1] and equals what a linear scan of the table gives.
C8_UFromS ==
  ( /\ lut.s[0] = 0 /\ lut.s[lut.n] = lut.L /\ lut.L > 0
    /\ \A i \in 0..(lut.n - 1) : lut.s[i] <= lut.s[i + 1] ) =>
    LET x  == lutOut.x
        lo == lutOut.lo
        hi == lutOut.hi
        i  == LutLinearScan(lut, x)
    IN  /\ 0 <= x /\ x < lut.L /\ (lutD - x) % lut.L = 0
        /\ hi = lo + 1 /\ lo >= 0 /\ hi <= lut.n
        /\ lut.s[lo] <= x /\ x < lut.s[hi]
        /\ lutOut.den > 0
        /\ lutOut.num * (lut.n * (lut.s[hi] - lut.s[lo]))
             = lutOut.den * (lo * (lut.s[hi] - lut.s[lo]) + (x - lut.s[lo]))
        /\ 0 <= lutOut.num /\ lutOut.num <= lutOut.den
        /\ lutOut.num * (lut.n * (lut.s[i + 1] - lut.s[i]))
             = lutOut.den * (i * (lut.s[i + 1] - lut.s[i]) + (x - lut.s[i]))
        /\ \A k \in {-1, 1} : uFromS(lut, lutD + k * lut.L) = lutOut

\* C8 witness: a negative argument wrapped upward into a later segment of a
\* table that has a plateau (two samples at the same arc length).
C8_Witness ==
  /\ lutD < 0 /\ lutOut.x > 0 /\ lutOut.lo > 0
  /\ lutOut.x # lut.s[lutOut.lo]
  /\ \E i \in 0..(lut.n - 1) : lut.s[i] = lut.s[i + 1]

\* C7: once the initialisation effect has run with 0 <= minV <= maxV on a track
\* of length L > 0, the car's speed lies within [minV, maxV] and its position
\* within [0, L) after every frame, whatever the frame delta and the slope.
C7_CoasterCarBounds ==
  (coEffect /\ 0 <= coProps.minV /\ coProps.minV <= coProps.maxV /\ lut.L > 0) =>
    /\ coProps.minV <= vRef /\ vRef <= coProps.maxV
    /\ 0 <= sRef /\ sRef < lut.L

\* C7 witness: after frames, a car on a descending track that reached maxV and
\* wrapped around the end of the track back to position 0.
C7_Witness ==
  /\ coEffect /\ coFramed
  /\ coProps.minV < coProps.maxV /\ vRef = coProps.maxV
  /\ coProps.uSpeed = 6 /\ coProps.i = 1 /\ sRef = 0

\* A state in which the last start() failed and no attempt is in flight.
MdFailedIdle == startPc = "idle" /\ mdOutcome = "failed"

\* C2: retry policy of MotionDetector.  Once start() has failed (no base gave
\* the pose library, the camera was refused, or anything else it awaited threw)
\* waitingGesture is set and startedRef is clear; from there a pointerdown or
\* keydown is possible while mounted and begins a new attempt; and an attempt
\* never begins from a state in which no failure has been recorded.
C2_RetryPolicy ==
  /\ [](MdFailedIdle => waitingGesture /\ ~startedRef)
  /\ [](MdFailedIdle /\ mdMounted => ENABLED (MdGesture /\ startPc' = "load1" /\ startedRef'))
  /\ [][MdFailedIdle /\ mdMounted /\ (startedRef' # startedRef \/ startPc' # startPc)
          => startPc' = "load1" /\ startedRef']_vars
  /\ [][startPc' = "load1" /\ startPc # "load1"
          => mdMounted /\ waitingGesture /\ mdOutcome = "failed"]_vars

\* a retry after a failed attempt is under way, on its second base
C2_Witness == mdOutcome = "failed" /\ startPc = "load2" /\ startedRef /\ waitingGesture

\* C3 as stated: before any start() has run to its end, onChange has never
\* been given a value other than 0 and motionValue is 0.
C3_ZeroUntilStarted ==
  mdOutcome # "succeeded" => "nonzero" \notin mdSeen /\ motionValue = 0

\* C3, amended: before any start() has obtained the camera stream (so over any
\* sequence of attempts that fail in loadPose or getUserMedia, and of gesture
\* retries) onChange has not been called at all and motionValue is 0.
C3_ZeroUntilCamera ==
  "camera" \notin mdSeen => "onChange" \notin mdSeen /\ motionValue = 0 /\ st = FreshSt

\* a retry is under way after a failed attempt, late enough for the throttle
\* of onResults to let a result through, and no camera was ever obtained
C3_Witness ==
  /\ "camera" \notin mdSeen
  /\ mdOutcome = "failed"
  /\ startPc = "gum"
  /\ now >= MIN_GAP
  /\ motionValue = 0

\* C5: while mounted, a send of loop() that settles (by a rejection as by a
\* result) is followed by the request of the next animation frame, and once
\* start() has succeeded the loop is never stopped.
C5_LoopSurvivesSend ==
  /\ [][mdMounted /\ loopPc = "send" /\ loopPc' # "send" => loopPc' = "raf"]_vars
  /\ [](mdMounted /\ mdOutcome = "succeeded" => loopPc \in {"raf", "send"})

\* a send of loop() has rejected and the next frame is requested
C5_Witness == mdMounted /\ "loopThrew" \in mdSeen /\ loopPc = "raf"

\* C6 as stated: after the unmount cleanup no animation frame has been
\* requested, no send has been issued, and no camera track is live.
C6_UnmountCancels ==
  ~mdMounted => /\ "raf" \notin mdSeen
                /\ "send" \notin mdSeen
                /\ loopPc # "raf"
                /\ ~srcLive
                /\ ~leakedLive

\* the auto-load has ended without reaching the setters
AutoLoadFailed ==
  loadPc = "idle" /\ loadOutcome \in {"rejected", "notOk", "textRejected", "invalid", "null"}

C9_SnapshotRoundTrip ==
  [][/\ loadPc = "text" /\ loadPc' = "idle" /\ loadOutcome' = "object"
     /\ saveHist.picked /\ saveHist.clean
     => Settings' = saveHist.snap]_vars

\* the saved file was loaded back over settings that edits had changed
C9_Witness ==
  /\ loadPc = "idle" /\ loadOutcome = "object"
  /\ saveHist.picked /\ saveHist.clean /\ saveHist.edited
  /\ Settings = saveHist.snap
  /\ coaster["carSize"] = Arr(<<1200, 900>>)
  /\ sky["top"] = Str("#101010")
  /\ panelKey = 1

\* C10: once the lights-settings.txt request has settled while mounted,
\* env.envPreset is 'lobby' and env has exactly the keys of defaults; env
\* equals defaults if the fetch (or the read of the body) rejected or the body
\* was not valid JSON, and else it is validateEnv(parsed, defaults) with
\* envPreset set to 'lobby'.
C10_LightsSettled ==
  lightsPc = "done" /\ lightsRead.mounted
    => /\ lobbyEnv["envPreset"] = Str("lobby")
       /\ DOMAIN lobbyEnv = DOMAIN defaults
       /\ lightsRead.how \in {"rejected", "invalid"} => lobbyEnv = defaults
       /\ lightsRead.how = "parsed"
            => lobbyEnv = [k \in DOMAIN defaults |->
                             IF k = "envPreset" THEN Str("lobby")
                             ELSE validateEnv(lightsRead.doc, defaults)[k]]

\* a body that names another allowed preset and a number given as a string
\* was read while mounted
C10_Witness ==
  /\ lightsPc = "done" /\ lightsRead.mounted /\ lightsRead.how = "parsed"
  /\ lightsRead.doc.kind = "object"
  /\ DOMAIN lightsRead.doc.own = {"envPreset", "fogNear"}
  /\ lightsRead.doc.own["envPreset"] = Str("city")
  /\ lightsRead.doc.own["fogNear"] = Str("12")
  /\ lobbyEnv["fogNear"] = Num(120000)
  /\ lobbyEnv # defaults

\* C11: makeBoltPointsRand and makeBoltPoints with k subdivisions return
\* 2^k + 1 points, the first a and the last b, and every pass keeps the points
\* of the pass before it in order, with one new point between each adjacent
\* pair.
C11_MidpointDisplacement ==
  ltStrikes > 0 =>
    /\ Len(ltPasses) = ltProps.subdivisions + 1
    /\ Len(ltPasses[Len(ltPasses)]) = Pow2(ltProps.subdivisions) + 1
    /\ ltPasses[Len(ltPasses)][1] = ltPasses[1][1]
    /\ ltPasses[Len(ltPasses)][Len(ltPasses[Len(ltPasses)])] = ltPasses[1][2]
    /\ \A j \in 1..(Len(ltPasses) - 1) :
         /\ Len(ltPasses[j + 1]) = 2 * Len(ltPasses[j]) - 1
         /\ \A i \in 1..Len(ltPasses[j]) :
              ltPasses[j + 1][2 * i - 1] = ltPasses[j][i]

C11_Witness ==
  /\ ltStrikes > 0
  /\ ltProps.classic
  /\ Len(ltPasses) = 4
  /\ Len(ltPasses[4]) = 9
  /\ 2 * ltPasses[2][2][1] # ltPasses[1][1][1] + ltPasses[1][2][1]

C18_EnforceDownward ==
  ltStrikes > 0 =>
    LET pts == ltPasses[Len(ltPasses)]
    IN /\ Len(mainGeo) = Len(pts)
       /\ mainGeo[1] = pts[1]
       /\ \A i \in 1..Len(pts) :
            mainGeo[i][1] = pts[i][1] /\ mainGeo[i][3] = pts[i][3]
       /\ \A i \in 2..Len(pts) :
            mainGeo[i][2] <= mainGeo[i - 1][2] - DefaultMinStep
       /\ mainGeo[1][2] > mainGeo[Len(pts)][2]
       /\ ~ltReversed
       /\ \A g \in 1..Len(branchGeo) : \A i \in 2..Len(branchGeo[g]) :
            branchGeo[g][i][2] <= branchGeo[g][i - 1][2] - DefaultMinStep

C18_Witness ==
  /\ ltStrikes > 0
  /\ ltProps.classic
  /\ \E i \in 2..Len(mainGeo) :
       /\ mainGeo[i][2] # ltPasses[Len(ltPasses)][i][2]
       /\ ltPasses[Len(ltPasses)][i][2] > ltPasses[Len(ltPasses)][i - 1][2]

\* C12 as stated: once 'ended' was handled, scoreRef and the displayed score
\* do not change until the next 'play', whatever frames run in between.
C12_FrozenAfterEnded ==
  [][frozen /\ frozen' => scoreRef' = scoreRef /\ score' = score]_vars

\* C13: 'play' sets scoreRef and the displayed score to 0 and gameActive to
\* true; a frame never lowers the score, adds at most 60 * min(dt, 0.05) <= 3,
\* adds nothing when motionValue <= 20, and, when the ticker is active, leaves
\* the displayed score at floor(scoreRef).
C13_ScoreAccounting ==
  [][/\ gLast'.op = "play" =>
          scoreRef' = 0 /\ score' = 0 /\ gameActive'
     /\ gLast'.op = "frame" =>
          /\ scoreRef' >= scoreRef
          /\ scoreRef' - scoreRef <= 600 * Min(gLast'.dt, 50)
          /\ scoreRef' - scoreRef <= 30000
          /\ tkMv <= 20 => scoreRef' = scoreRef
          /\ tkActive => score' = scoreRef' \div 10000
          /\ score' >= score]_vars

C13_Witness ==
  /\ gLast.op = "frame"
  /\ gLast.dt = 100
  /\ tkActive
  /\ audioPlaying
  /\ tkMv = 400
  /\ score >= 3

\* C14: startMusicAndRotate takes effect at most once, and only in an effect
\* run with motionValue > 35 that comes more than 250 ms after the first of
\* the unbroken series of such runs; a run with motionValue <= 35 clears the
\* hold timer.
C14_MusicStart ==
  /\ [](gStarts <= 1)
  /\ [][/\ gStarts' > gStarts =>
             /\ effMv' > START_MV
             /\ holdFrom # 0
             /\ gNow - holdFrom > HOLD_TICKS
             /\ ~audioMuted' /\ audioVolume' = 0 /\ autoRotate'
        /\ (effMv' # effMv /\ effMv' <= START_MV) => mvSinceRef' = 0]_vars

C14_Witness ==
  /\ gStarts = 1
  /\ audioStartedRef
  /\ audioVolume = 100
  /\ effMv <= START_MV

\* C15 as stated: a result without landmarks always leaves st.out = 0 and
\* hands 0 to onChange, however soon it comes after the result before it.
C15_ZeroOnLostLandmarks ==
  (rsCall.kind = "result" /\ ~rsCall.res.has) =>
    rsCall.called /\ rsCall.val = 0 /\ rsSt.out = 0

\* const speed = Math.max(0, Math.abs(vy) - DEAD) of the last result
LastSpeed ==
  LET ticks == rsCall.at - rsCall.prev.t
      dy == rsCall.prev.y - TorsoY(rsCall.res.lm)
  IN Max(0, Abs(IF ticks * 1000 < TICKS_PER_SEC THEN dy * 1000
                ELSE (dy * TICKS_PER_SEC) \div ticks) - DEAD)

\* const lift = Math.max(0, st.g - y) of the last result
LastLift ==
  LET y == TorsoY(rsCall.res.lm)
      g0 == IF rsCall.prev.g = Null THEN y ELSE rsCall.prev.g
  IN Max(0, (g0 * 985 + Max(y, g0) * 15) \div 1000 - y)

\* C16: a value handed to onChange is never negative; it is 0 for a result
\* without landmarks, for one with no hip and no shoulder of visibility 0.5 or
\* more, for the first one that gives a torso height, and for one with speed in
\* the dead zone and lift below 0.002; the torso height is that of the hips
\* whenever a hip is visible.
C16_OnChangeValues ==
  (rsCall.kind = "result" /\ rsCall.called) =>
    /\ rsCall.val >= 0
    /\ rsSt.out = rsCall.val
    /\ ~rsCall.res.has => rsCall.val = 0
    /\ (\A i \in HIPS \cup SHOULDERS : rsCall.res.lm[i].visibility < VIS_MIN)
         => rsCall.val = 0
    /\ (rsCall.res.has /\ TorsoY(rsCall.res.lm) # Null /\ rsCall.prev.y = Null)
         => rsCall.val = 0
    /\ (rsCall.res.has /\ TorsoY(rsCall.res.lm) # Null /\ rsCall.prev.y # Null
          /\ LastSpeed = 0 /\ LastLift < IDLE_LIFT)
         => rsCall.val = 0
    /\ (rsCall.res.has /\ \E i \in HIPS : rsCall.res.lm[i].visibility >= VIS_MIN)
         => rsSt.y = takeAvg(rsCall.res.lm, HIPS)

C16_Witness ==
  /\ rsCall.kind = "result"
  /\ rsCall.called
  /\ rsCall.val > 0
  /\ rsCall.prev.out > 0
  /\ rsCall.prev.y # rsSt.y
  /\ rsSt.y = 5000

\* C19: dynamicRainCount is an integer in [120, 800] and dynamicRainOpacity
\* is in [0.16, 0.75]; a count above 120 comes with opacity 0.75 and an opacity
\* below 0.75 with count 120; neither falls when motionValue rises.
C19_RainTwoStage ==
  /\ dynamicRain = DynamicRain(rdMv)
  /\ dynamicRain.count \in RAIN_MIN_COUNT..RAIN_MAX_COUNT
  /\ dynamicRain.opacity >= RAIN_MIN_OP
  /\ dynamicRain.opacity <= RAIN_MAX_OP
  /\ dynamicRain.count > RAIN_MIN_COUNT => dynamicRain.opacity = RAIN_MAX_OP
  /\ dynamicRain.opacity < RAIN_MAX_OP => dynamicRain.count = RAIN_MIN_COUNT
  /\ \A d \in 1..5 :
       /\ DynamicRain(rdMv + d).count >= dynamicRain.count
       /\ DynamicRain(rdMv + d).opacity >= dynamicRain.opacity

C19_Witness ==
  /\ rdMv > 0
  /\ dynamicRain.count > 700
  /\ dynamicRain.opacity = RAIN_MAX_OP

\* C20 as stated: in every render the radius handed to BatsJumpHtml is the
\* radius of the outermost ring Mountains renders.
C20_BatsOnOuterRing ==
  (scRendered /\ ringsRef # <<>>) => batsRadius = ringsRef[Len(ringsRef)]

\* what the history of an attempt says about it
AttemptFailed(a) ==
  \/ a.probe # <<>> /\ a.probe # <<"ok", "ok", "ok">>
  \/ a.tag = "failed"
  \/ a.tag = "loaded" /\ a.wp \notin {"fn", "ns"}
  \/ a.init = "rejected"

AttemptSucceeded(a) ==
  /\ a.tag = "loaded"
  /\ a.wp \in {"fn", "ns"}
  /\ a.init \in {"ok", "absent"}

AttemptError(a) ==
  [base |-> a.base,
   msg |-> IF a.tag = "none" THEN "Local assets missing"
           ELSE IF a.tag = "failed" THEN "Failed to load <script>"
           ELSE IF a.init = "rejected" THEN "initialize rejected"
           ELSE "Pose constructor not found"]

\* C21: loadPose tries the bases in the order local, unpkg, jsDelivr; a later
\* base is tried only after every earlier one failed; it returns the pose of
\* the first base whose script loaded, whose constructor was found and whose
\* initialisation succeeded, and throws, the error of the last attempt, only
\* when all three failed; the local base gets a <script> only after a probe
\* that found all three files.
C21_LoadPoseOrder ==
  /\ Len(lpLog) <= 3
  /\ \A k \in 1..Len(lpLog) : lpLog[k].base = <<"local", "unpkg", "jsdelivr">>[k]
  /\ \A k \in 1..(Len(lpLog) - 1) : AttemptFailed(lpLog[k])
  /\ (lpOut.kind = "pose") <=>
       (Len(lpLog) > 0 /\ AttemptSucceeded(lpLog[Len(lpLog)]))
  /\ (lpOut.kind = "pose") =>
       /\ lpPc.at = "returned"
       /\ lpOut.base = lpLog[Len(lpLog)].base
  /\ (lpOut.kind = "error") <=>
       (Len(lpLog) = 3 /\ AttemptFailed(lpLog[3]))
  /\ (lpOut.kind = "error") =>
       /\ lpPc.at = "thrown"
       /\ lpOut.base = "jsdelivr"
       /\ lpOut.msg = AttemptError(lpLog[3]).msg
       /\ lastErr = AttemptError(lpLog[3])
  /\ \A k \in 1..Len(lpTags) :
       /\ \E j \in 1..Len(lpLog) : lpLog[j].base = lpTags[k]
       /\ lpTags[k] = "local" => lpLog[1].probe = <<"ok", "ok", "ok">>
  /\ \A k \in 1..Len(lpLog) :
       lpLog[k].tag # "none" => \E j \in 1..Len(lpTags) : lpTags[j] = lpLog[k].base

\* the local script was injected after a full probe and its pose failed to
\* initialise, unpkg failed too, and the pose came from jsDelivr
C21_Witness ==
  /\ lpOut.kind = "pose" /\ lpOut.base = "jsdelivr"
  /\ lpLog[1].probe = <<"ok", "ok", "ok">>
  /\ lpLog[1].init = "rejected"
  /\ lpTags = <<"local", "unpkg", "jsdelivr">>

\* all three bases failed, the local one at its probe, and loadPose threw
C21_WitnessThrown ==
  /\ lpOut.kind = "error"
  /\ lpLog[1].probe = <<"ok", "notOk", "ok">>
  /\ lpTags = <<"unpkg", "jsdelivr">>

\* onPickFile has parsed, or failed to parse, the text of the chosen file
PickFileRead ==
  loadPc = "text" /\ loadPc' = "idle" /\ loadOutcome' # "textRejected"

\* new is cur with the own keys of the file's section laid over it; a section
\* the file does not hold leaves cur as it is
SectionMergedOver(name, cur, new) ==
  IF name \in DOMAIN pickDoc.sec
  THEN LET own == pickDoc.sec[name].own IN
       /\ DOMAIN new = DOMAIN cur \cup DOMAIN own
       /\ \A k \in DOMAIN new : new[k] = IF k \in DOMAIN own THEN own[k] ELSE cur[k]
  ELSE new = cur

\* the file gives no value to this field of the i-th image
ItemFieldAbsent(i, size) ==
  \/ i \notin DOMAIN pickDoc.items.items
  \/ (IF size THEN pickDoc.items.items[i].size ELSE pickDoc.items.items[i].y) = Undefined

\* a size or y the file gives is taken, one it leaves out keeps its current value
ItemsMergedOver(cur, new) ==
  /\ pickDoc.items.k = "absent" => new = cur
  /\ pickDoc.items.k = "array" =>
       \A i \in portraitImages :
         /\ ItemFieldAbsent(i, TRUE) => new[i].size = cur[i].size
         /\ ItemFieldAbsent(i, FALSE) => new[i].y = cur[i].y
         /\ (~ItemFieldAbsent(i, TRUE) /\ pickDoc.items.items[i].size # JsNull)
              => new[i].size = pickDoc.items.items[i].size
         /\ (~ItemFieldAbsent(i, FALSE) /\ pickDoc.items.items[i].y # JsNull)
              => new[i].y = pickDoc.items.items[i].y

OrbitMergedOver(cur, new) ==
  /\ pickDoc.orbit.k \in {"absent", "falsy"} => new = cur
  /\ (pickDoc.orbit.k = "truthy" /\ pickDoc.orbit.autoRotate.t = "bool")
       => new = (pickDoc.orbit.autoRotate.n = 1)
  /\ (pickDoc.orbit.k = "truthy" /\ pickDoc.orbit.autoRotate = Undefined) => new = cur

\* the parts of C22 that concern the failed parse, the five settings objects,
\* autoRotate, the two keys and the file input
PickFileMerge ==
  /\ fileValue' = FALSE
  /\ pickDoc.kind \in {"invalid", "null"} =>
       /\ Settings' = Settings
       /\ panelKey' = panelKey /\ uiKey' = uiKey
  /\ pickDoc.kind = "object" =>
       /\ panelKey' = panelKey + 1 /\ uiKey' = uiKey + 1
       /\ SectionMergedOver("sky", sky, sky')
       /\ SectionMergedOver("env", env, env')
       /\ SectionMergedOver("coaster", coaster, coaster')
       /\ SectionMergedOver("rain", rain, rain')
       /\ SectionMergedOver("imgRing", imgRing, imgRing')
       /\ OrbitMergedOver(autoRotate, autoRotate')

\* the same for every setting but imgItems: it holds
PickFileMergesButImgItems == [][PickFileRead => PickFileMerge]_vars

\* C22 as stated: when onPickFile has read a file that is not valid JSON or is
\* JSON null, no setting and neither key changes; when it has read a JSON
\* object, the sections of the file are merged over the current values, what
\* the file leaves out (of imgItems too) keeps its current value, and panelKey
\* and uiKey each grow by 1; the value of the file input is cleared.
C22_PickFileMerges ==
  [][PickFileRead =>
       /\ PickFileMerge
       /\ pickDoc.kind = "object" => ItemsMergedOver(imgItems, imgItems')]_vars
====
